---- MODULE Spec2Model ----
(***************************************************************************)
(* Verification model of the Rifty utterance-understanding core            *)
(* (services/python-ai/app/agent): context window, memory store, intent    *)
(* classifier, router, slot filler, redactor, telemetry, user config and   *)
(* the handle_utterance pipeline.                                          *)
(*                                                                         *)
(* Conventions                                                             *)
(*   - texts are TLA+ strings; substring tests are computed on them;       *)
(*   - confidences are integers in hundredths (0.75 is 75);                *)
(*   - decay and salience scores are exact rationals [n, d];               *)
(*   - timestamps are integer milliseconds read from the clock `now`;      *)
(*   - Python None is the record None (for optional records) or the        *)
(*     string NoneStr (for optional strings).                              *)
(***************************************************************************)
EXTENDS Integers, Sequences, FiniteSets, TLC

VARIABLES
    state,            \* context_window.state: the active focus or None
    recent_messages,  \* context_window.recent_messages: the ring
    now,              \* the clock, time.time() * 1000
    advRun,           \* history: advance_turn(False) calls since register_entry("e1","journal")
    receiptsIn,       \* history: receipts recorded since the last clear()
    decaySteps,       \* history: decay updates applied to the current focus
    cl_text,          \* classify_riflett_intent: the text argument
    cl_records,       \* classify_riflett_intent: the context_records argument
    cl_result,        \* classify_riflett_intent: the returned classification, or None
    rt_intent,        \* route_intent: the RoutedIntent argument
    rt_decision,      \* route_intent: the returned RouteDecision, or None
    pc,               \* per task: "idle", the lock acquisition it is suspended at, or "done"
    frame,            \* per task: the locals of its handle_utterance call, or None
    outcome,          \* per task: what its call returned or raised, or None
    record_raised,    \* history: the tasks whose Telemetry.record raised
    user_lock,        \* user_config._lock
    storage_lock,     \* telemetry._storage_lock
    in_memory_cache,  \* user_config._in_memory_cache
    trace_store,      \* telemetry._trace_store
    trace_seq,        \* number of trace ids generated so far
    memory_cache,     \* memory._memory_cache
    user_id,          \* memory._user_id
    rag_results,      \* memory._rag_results
    goal_context,     \* goal_context._goal_context
    cache_store,      \* cache.EdgeCache._store
    call              \* the last call a component received on its own: its arguments and result, or None

windowVars == <<state, recent_messages, advRun, receiptsIn, decaySteps>>
classifierVars == <<cl_text, cl_records, cl_result>>
routerVars == <<rt_intent, rt_decision>>
taskVars == <<pc, frame, outcome, record_raised>>
storeVars == <<user_lock, storage_lock, in_memory_cache, trace_store, trace_seq, memory_cache, cache_store>>
seedVars == <<user_id, rag_results, goal_context>>
pipelineVars == <<taskVars, storeVars, seedVars>>
callVars == <<call>>
vars == <<state, recent_messages, now, advRun, receiptsIn, decaySteps,
          cl_text, cl_records, cl_result, rt_intent, rt_decision,
          pc, frame, outcome, record_raised, user_lock, storage_lock, in_memory_cache,
          trace_store, trace_seq, memory_cache, user_id, rag_results, goal_context, cache_store, call>>

-----------------------------------------------------------------------------
(* Bounds of the model *)

MaxClock == 2
MaxClockRing == 1
MaxDecaySteps == 5
MaxRecentWindow == 2
MaxRingReceipts == 3

-----------------------------------------------------------------------------
(* Python values *)

None == [isNone |-> TRUE]
NoneStr == "None"

\* body at the value of v, with v computed once
With(v, body(_)) == CHOOSE r \in {body(x) : x \in {v}} : TRUE

Min(a, b) == IF a <= b THEN a ELSE b
Max(a, b) == IF a >= b THEN a ELSE b

-----------------------------------------------------------------------------
(* Strings: str.lower, str.strip, `in`, and the regex character classes *)

UpperChars == "ABCDEFGHIJKLMNOPQRSTUVWXYZ"
LowerChars == "abcdefghijklmnopqrstuvwxyz"
DigitChars == "0123456789"

CharAt(s, i) == SubSeq(s, i, i)

IndexIn(c, alphabet) ==
    IF \E i \in 1..Len(alphabet) : CharAt(alphabet, i) = c
    THEN CHOOSE i \in 1..Len(alphabet) : CharAt(alphabet, i) = c
    ELSE 0

IsUpper(c) == IndexIn(c, UpperChars) > 0
IsLower(c) == IndexIn(c, LowerChars) > 0
IsDigit(c) == IndexIn(c, DigitChars) > 0
IsSpace(c) == c \in {" ", "\t", "\n"}
IsWordChar(c) == IsUpper(c) \/ IsLower(c) \/ IsDigit(c) \/ c = "_"

LowerChar(c) == IF IsUpper(c) THEN CharAt(LowerChars, IndexIn(c, UpperChars)) ELSE c
UpperChar(c) == IF IsLower(c) THEN CharAt(UpperChars, IndexIn(c, LowerChars)) ELSE c

\* str.lower() of s[first..last]
RECURSIVE LowerSlice(_, _, _)
LowerSlice(s, first, last) ==
    IF first > last THEN ""
    ELSE IF first = last THEN LowerChar(CharAt(s, first))
    ELSE LowerSlice(s, first, (first + last) \div 2) \o LowerSlice(s, (first + last) \div 2 + 1, last)

Lower(s) == LowerSlice(s, 1, Len(s))

Strip(s) ==
    LET keep == {i \in 1..Len(s) : ~IsSpace(CharAt(s, i))}
    IN  IF keep = {} THEN ""
        ELSE SubSeq(s, CHOOSE i \in keep : \A j \in keep : i <= j,
                       CHOOSE i \in keep : \A j \in keep : i >= j)

\* Python `p in s`
Contains(s, p) == \E i \in 1..(Len(s) - Len(p) + 1) : SubSeq(s, i, i + Len(p) - 1) = p

StartsWith(s, p) == Len(s) >= Len(p) /\ SubSeq(s, 1, Len(p)) = p

\* regex \b at the gap before position i (1..Len(s)+1)
WordBoundary(s, i) ==
    LET before == i > 1 /\ IsWordChar(CharAt(s, i - 1))
        after == i <= Len(s) /\ IsWordChar(CharAt(s, i))
    IN  before # after

\* regex \bword\b, case-insensitive, for a word made of word characters
ContainsWord(s, w) ==
    LET l == Lower(s)
    IN  \E i \in 1..(Len(l) - Len(w) + 1) :
            /\ SubSeq(l, i, i + Len(w) - 1) = w
            /\ WordBoundary(l, i)
            /\ WordBoundary(l, i + Len(w))

-----------------------------------------------------------------------------
(* Exact rationals for the float arithmetic of the scores *)

RECURSIVE GCD(_, _)
GCD(a, b) == IF b = 0 THEN a ELSE GCD(b, a % b)

Rat(n, d) == LET g == GCD(IF n < 0 THEN -n ELSE n, d) IN [n |-> n \div g, d |-> d \div g]
RatAdd(a, b) == Rat(a.n * b.d + b.n * a.d, a.d * b.d)
RatMul(a, b) == Rat(a.n * b.n, a.d * b.d)
RatLess(a, b) == a.n * b.d < b.n * a.d
RatMin(a, b) == IF RatLess(b, a) THEN b ELSE a
RatOne == Rat(1, 1)
RatZero == Rat(0, 1)

-----------------------------------------------------------------------------
(* context_window.py *)

MAX_SEMANTIC_TURNS == 10
DECAY_FACTOR == Rat(6, 10)
MIN_ACTIVE_SCORE == Rat(2, 10)

WindowState(entryId, entryType, createdAt, decayScore) ==
    [entryId |-> entryId, entryType |-> entryType, createdAt |-> createdAt, decayScore |-> decayScore]

RecentMessage(text, ts, score, isReceipt) ==
    [text |-> text, ts |-> ts, score |-> score, isReceipt |-> isReceipt]

\* tokens of re.split(r"[^a-z0-9]+", trimmed): the maximal runs of [a-z0-9]
TokenPositions(s) == {i \in 1..Len(s) : IsLower(CharAt(s, i)) \/ IsDigit(CharAt(s, i))}
TokenCount(s) == Cardinality({i \in TokenPositions(s) : (i - 1) \notin TokenPositions(s)})

_compute_message_score(text) ==
    LET trimmed == Lower(Strip(text))
        tokens == TokenCount(trimmed)
        total == Cardinality(TokenPositions(trimmed))
    IN  IF trimmed = "" \/ tokens = 0 THEN RatZero
        ELSE LET base == RatMin(RatOne, Rat(tokens, 12))
                 lexical == RatMin(RatOne, Rat(total, tokens * 5))
             IN  RatMin(RatOne, RatAdd(RatMul(base, Rat(6, 10)), RatMul(lexical, Rat(4, 10))))

_is_receipt_message(text) ==
    LET lowered == Lower(text)
    IN  Contains(lowered, "receipt") \/ Contains(lowered, "confirmed")

\* list.sort(key=ts, reverse=True): stable, equal keys keep their order
RECURSIVE InsertDesc(_, _)
InsertDesc(sorted, m) ==
    IF Len(sorted) = 0 THEN <<m>>
    ELSE IF Head(sorted).ts >= m.ts THEN <<Head(sorted)>> \o InsertDesc(Tail(sorted), m)
    ELSE <<m>> \o sorted

RECURSIVE SortDesc(_)
SortDesc(msgs) ==
    IF Len(msgs) = 0 THEN <<>>
    ELSE InsertDesc(SortDesc(SubSeq(msgs, 1, Len(msgs) - 1)), msgs[Len(msgs)])

\* list.sort(key=ts): stable
RECURSIVE InsertAsc(_, _)
InsertAsc(sorted, m) ==
    IF Len(sorted) = 0 THEN <<m>>
    ELSE IF Head(sorted).ts <= m.ts THEN <<Head(sorted)>> \o InsertAsc(Tail(sorted), m)
    ELSE <<m>> \o sorted

RECURSIVE SortAsc(_)
SortAsc(msgs) ==
    IF Len(msgs) = 0 THEN <<>>
    ELSE InsertAsc(SortAsc(SubSeq(msgs, 1, Len(msgs) - 1)), msgs[Len(msgs)])

RECURSIVE Preserve(_, _)

\* a loop that keeps, beside the receipts, the oldest messages
Preserve_oldest(msgs, preserved) ==
    preserved \o SelectSeq(SubSeq(msgs, 1, Len(msgs) - MAX_SEMANTIC_TURNS), LAMBDA message : message.isReceipt)
              \o SubSeq(msgs, Max(1, Len(msgs) - MAX_SEMANTIC_TURNS + 1), Len(msgs))

\* the for loop of _prune_low_signal_messages over the newest-first list
Preserve(msgs, preserved) ==
    IF Len(msgs) = 0 THEN preserved
    ELSE LET message == Head(msgs)
         IN  IF message.isReceipt THEN Preserve(Tail(msgs), Append(preserved, message))
             ELSE IF Len(preserved) < MAX_SEMANTIC_TURNS
                  THEN Preserve(Tail(msgs), Append(preserved, message))
                  ELSE Preserve(Tail(msgs), preserved)

\* while len(preserved) > MAX_SEMANTIC_TURNS: preserved.pop(0)
PopToCap(preserved) ==
    IF Len(preserved) > MAX_SEMANTIC_TURNS
    THEN SubSeq(preserved, Len(preserved) - MAX_SEMANTIC_TURNS + 1, Len(preserved))
    ELSE preserved

\* the message texts the model feeds to record_user_message
WindowTexts == {"", "?", "ok", "sounds good", "Payment CONFIRMED"}
RingTexts == {"ok", "confirmed"}
MessageTexts == WindowTexts \cup RingTexts

\* the two text functions, tabulated once over the model's texts
MessageScore == [text \in MessageTexts |-> _compute_message_score(text)] @@ <<>>
IsReceipt == [text \in MessageTexts |-> _is_receipt_message(text)] @@ <<>>

\* a prune that leaves the ring as it is after recent_messages.clear()
_prune_cleared(msgs) == <<>>

_prune_low_signal_messages(msgs) == PopToCap(SortAsc(Preserve(SortDesc(msgs), <<>>)))

\* a decay that tests the floor before multiplying, one turn late
_apply_decay_late(st, created_entry, clock) ==
    IF st = None THEN None
    ELSE IF created_entry THEN [st EXCEPT !.decayScore = RatOne, !.createdAt = clock]
    ELSE IF RatLess(st.decayScore, MIN_ACTIVE_SCORE) THEN None
    ELSE [st EXCEPT !.decayScore = RatMul(st.decayScore, DECAY_FACTOR)]

\* the focus after _apply_decay(created_entry), given the focus before
_apply_decay(st, created_entry, clock) ==
    IF st = None THEN None
    ELSE IF created_entry THEN [st EXCEPT !.decayScore = RatOne, !.createdAt = clock]
    ELSE LET decayed == RatMul(st.decayScore, DECAY_FACTOR)
         IN  IF RatLess(decayed, MIN_ACTIVE_SCORE) THEN None
             ELSE [st EXCEPT !.decayScore = decayed]

\* a message decay that never drops the focus
FocusAfterMessage_keep(st, message) ==
    IF st = None THEN None
    ELSE [st EXCEPT !.decayScore = RatMin(RatOne, RatAdd(RatMul(st.decayScore, DECAY_FACTOR),
                                                          RatMul(message.score, Rat(5, 10))))]

\* the `if state:` block of record_user_message: the focus after a message
FocusAfterMessage(st, message) ==
    IF st = None THEN None
    ELSE LET updated == RatMin(RatOne, RatAdd(RatMul(st.decayScore, DECAY_FACTOR),
                                              RatMul(message.score, Rat(5, 10))))
         IN  IF RatLess(updated, MIN_ACTIVE_SCORE) /\ ~message.isReceipt THEN None
             ELSE [st EXCEPT !.decayScore = updated]

snapshot ==
    IF state = None THEN None
    ELSE [entryId |-> state.entryId, entryType |-> state.entryType,
          createdAt |-> state.createdAt, decayScore |-> state.decayScore,
          isActive |-> ~RatLess(state.decayScore, MIN_ACTIVE_SCORE)]

recent ==
    IF Len(recent_messages) > MAX_SEMANTIC_TURNS
    THEN SubSeq(recent_messages, Len(recent_messages) - MAX_SEMANTIC_TURNS + 1, Len(recent_messages))
    ELSE recent_messages

\* reads that decay the focus they report
WindowAfterReads_decayed == [state |-> _apply_decay(state, FALSE, now), recent_messages |-> recent_messages]

\* the focus and the ring after snapshot() and recent(): snapshot builds a new
\* dict and recent slices a new list, and neither assigns state or recent_messages
WindowAfterReads == [state |-> state, recent_messages |-> recent_messages]

EntryIds == {"e1", "e2"}
EntryTypes == {"journal", "goal", "unknown"}

register_entry(entry_id, entry_type) ==
    /\ state' = WindowState(entry_id, entry_type, now, RatOne)
    /\ advRun' = IF entry_id = "e1" /\ entry_type = "journal" THEN 0 ELSE -1
    /\ decaySteps' = 0
    /\ UNCHANGED <<recent_messages, now, receiptsIn, classifierVars, routerVars, callVars, pipelineVars>>

refresh_entry(entry_id, entry_type) ==
    LET effective_type == IF entry_type # "unknown" THEN entry_type
                          ELSE IF state # None THEN state.entryType ELSE "unknown"
    IN  /\ state' = WindowState(entry_id, effective_type, now, RatOne)
        /\ advRun' = -1
        /\ decaySteps' = 0
        /\ UNCHANGED <<recent_messages, now, receiptsIn, classifierVars, routerVars, callVars, pipelineVars>>

clear ==
    /\ state' = None
    /\ recent_messages' = <<>>
    /\ advRun' = -1
    /\ receiptsIn' = 0
    /\ decaySteps' = 0
    /\ UNCHANGED <<now, classifierVars, routerVars, callVars, pipelineVars>>

advance_turn(created_entry) ==
    /\ state # None /\ ~created_entry => decaySteps < MaxDecaySteps
    /\ state' = _apply_decay(state, created_entry, now)
    /\ advRun' = IF ~created_entry /\ advRun >= 0 THEN Min(advRun + 1, 5) ELSE -1
    /\ decaySteps' = IF state' = None \/ created_entry THEN 0 ELSE decaySteps + 1
    /\ UNCHANGED <<recent_messages, now, receiptsIn, classifierVars, routerVars, callVars, pipelineVars>>

\* lines 128-133 of record_user_message: the message made of the text
NewMessage(text) ==
    RecentMessage(text, now, IF IsReceipt[text] THEN RatOne ELSE MessageScore[text], IsReceipt[text])

\* lines 128-137 of record_user_message, for a text that is not empty
StoreMessage(text) ==
    /\ state # None => decaySteps < MaxDecaySteps
    /\ recent_messages' = _prune_low_signal_messages(Append(recent_messages, NewMessage(text)))
    /\ state' = FocusAfterMessage(state, NewMessage(text))
    /\ advRun' = -1
    /\ receiptsIn' = IF IsReceipt[text] THEN receiptsIn + 1 ELSE receiptsIn
    /\ decaySteps' = IF state' = None THEN 0 ELSE decaySteps + 1
    /\ UNCHANGED <<now, classifierVars, routerVars, pipelineVars>>

record_user_message(text) ==
    IF text = "" THEN UNCHANGED vars
    ELSE StoreMessage(text) /\ UNCHANGED callVars

\* time passes
Tick(limit) ==
    /\ now < limit
    /\ now' = now + 1
    /\ UNCHANGED <<windowVars, classifierVars, routerVars, callVars, pipelineVars>>

InitWindow ==
    /\ state = None
    /\ recent_messages = <<>>
    /\ advRun = -1
    /\ receiptsIn = 0
    /\ decaySteps = 0

-----------------------------------------------------------------------------
(* The context window driven by its callers *)

RegisterEntry == \E id \in EntryIds, ty \in EntryTypes : register_entry(id, ty)
RefreshEntry == \E id \in EntryIds, ty \in EntryTypes : refresh_entry(id, ty)
AdvanceTurn == \E created \in BOOLEAN : advance_turn(created)
Clear == clear
RecordUserMessage ==
    \E text \in WindowTexts :
        /\ text # "" => Len(recent_messages) < MaxRecentWindow
        /\ record_user_message(text)
TickWindow == Tick(MaxClock)

InitClassifierIdle ==
    /\ cl_text = ""
    /\ cl_records = <<>>
    /\ cl_result = None

InitRouterIdle ==
    /\ rt_intent = None
    /\ rt_decision = None

Tasks == {"t1", "t2"}

Lock(locked, holder, waiters) == [locked |-> locked, holder |-> holder, waiters |-> waiters]
FreeLock == Lock(FALSE, NoneStr, <<>>)

InitTasksIdle ==
    /\ pc = [t \in Tasks |-> "idle"]
    /\ frame = [t \in Tasks |-> None]
    /\ outcome = [t \in Tasks |-> None]
    /\ record_raised = {}
    /\ call = None
    /\ user_lock = FreeLock
    /\ storage_lock = FreeLock
    /\ in_memory_cache = None
    /\ trace_store = <<>>
    /\ trace_seq = 0

InitPipelineIdle ==
    /\ InitTasksIdle
    /\ memory_cache = <<>>
    /\ user_id = NoneStr
    /\ rag_results = <<>>
    /\ goal_context = <<>>
    /\ cache_store = <<>>

InitW == InitWindow /\ now = 0 /\ InitClassifierIdle /\ InitRouterIdle /\ InitPipelineIdle
NextW == RegisterEntry \/ RefreshEntry \/ AdvanceTurn \/ Clear \/ RecordUserMessage \/ TickWindow
SpecWindow == InitW /\ [][NextW]_vars

-----------------------------------------------------------------------------
(* The recent-message ring under a long run of messages *)

RecordRingMessage ==
    \E text \in RingTexts :
        /\ IsReceipt[text] => receiptsIn < MaxRingReceipts
        /\ record_user_message(text)
TickRing == Tick(MaxClockRing)

NextRing == RecordRingMessage \/ TickRing
SpecRing == InitW /\ [][NextRing]_vars

\* the same run, with each call keeping the list it pruned: the ring before
\* the call and the new message
RecordPruned ==
    \E text \in RingTexts :
        /\ IsReceipt[text] => receiptsIn < MaxRingReceipts
        /\ StoreMessage(text)
        /\ call' = [op |-> "record_user_message", offered |-> Append(recent_messages, NewMessage(text))]
TickPrune == Tick(MaxClockRing)

NextPrune == RecordPruned \/ TickPrune
SpecPrune == InitW /\ [][NextPrune]_vars

-----------------------------------------------------------------------------
(* riflett_intent_classifier.py *)

SEARCH_PHRASES == {"find", "show me", "search for", "when did i", "where did i",
                   "what did i write", "look up", "list"}
ADDITIVE_PHRASES == {"also", "update", "another", "forgot", "in addition", "plus",
                     "adding", "one more thing"}
SAVE_PHRASES == {"save", "log", "capture", "remember", "write this down", "note that",
                 "journal", "record"}
TEMPORAL_MARKERS == {"today", "tonight", "this morning", "this afternoon", "this evening",
                     "yesterday", "earlier", "just now", "right now", "tomorrow", "monday",
                     "tuesday", "wednesday", "thursday", "friday", "saturday", "sunday"}
ACTION_VERBS == {"finished", "completed", "did", "ran", "talked", "spoke", "met", "decided",
                 "started", "launched", "sent", "emailed", "called", "worked", "wrote",
                 "built", "shipped"}
PRONOUN_ANCHOR_WORDS == {"it", "this", "that", "the goal", "the entry", "that goal",
                         "this entry", "that plan", "the plan", "that project", "this project"}

DUPLICATE_THRESHOLD == 85
DUPLICATE_MIN_PREFIX_LENGTH == 20

_contains_phrase(text, phrases) == \E phrase \in phrases : Contains(text, phrase)

AllDigits(s, from, to) == \A k \in from..to : k <= Len(s) /\ IsDigit(CharAt(s, k))

\* TIME_REGEX \b(\d{1,2}(:\d{2})?\s?(am|pm))\b matches somewhere in s
MatchesTimeRegex(s) ==
    \E i \in 1..Len(s), nd \in {1, 2}, nm \in {0, 3}, ns \in {0, 1} :
        LET afterDigits == i + nd
            afterMinutes == afterDigits + nm
            afterSpace == afterMinutes + ns
        IN  /\ WordBoundary(s, i)
            /\ AllDigits(s, i, afterDigits - 1)
            /\ nm = 3 => (afterDigits <= Len(s) /\ CharAt(s, afterDigits) = ":"
                           /\ AllDigits(s, afterDigits + 1, afterDigits + 2))
            /\ ns = 1 => (afterMinutes <= Len(s) /\ IsSpace(CharAt(s, afterMinutes)))
            /\ afterSpace + 1 <= Len(s)
            /\ Lower(SubSeq(s, afterSpace, afterSpace + 1)) \in {"am", "pm"}
            /\ WordBoundary(s, afterSpace + 2)

_has_temporal_marker(text) == _contains_phrase(text, TEMPORAL_MARKERS) \/ MatchesTimeRegex(text)
_has_save_language(text) == _contains_phrase(text, SAVE_PHRASES)
_has_additive_language(text) == _contains_phrase(text, ADDITIVE_PHRASES)
_has_action_language(text) == \E verb \in ACTION_VERBS : Contains(text, verb)
_is_search_query(text) == _contains_phrase(text, SEARCH_PHRASES)

\* PRONOUN_ANCHORS.search(trimmed)
HasPronounAnchor(text) == \E w \in PRONOUN_ANCHOR_WORDS : ContainsWord(text, w)

\* QUESTION_MARK.search(trimmed)
IsQuestion(text) == Contains(text, "?")

\* len([word for word in re.split(r"\s+", trimmed) if word])
WordCount(text) ==
    Cardinality({i \in 1..Len(text) :
        ~IsSpace(CharAt(text, i)) /\ (i = 1 \/ IsSpace(CharAt(text, i - 1)))})

\* a candidate that always carries the confidence of an unlikely intent
_base_candidate_flat(label, confidence) == [label |-> label, confidence |-> 60]

_base_candidate(label, confidence) == [label |-> label, confidence |-> confidence]

\* the first record whose score reaches the duplicate threshold
_pick_duplicate(records) ==
    LET hits == {i \in DOMAIN records : records[i].score >= DUPLICATE_THRESHOLD}
    IN  IF hits = {} THEN None
        ELSE records[CHOOSE i \in hits : \A j \in hits : i <= j]

_map_kind_to_entry_type(kind) ==
    LET normalized == Lower(kind)
    IN  IF kind = "" THEN NoneStr
        ELSE IF Contains(normalized, "goal") THEN "goal"
        ELSE IF Contains(normalized, "event") \/ Contains(normalized, "schedule") THEN "schedule"
        ELSE IF Contains(normalized, "entry") \/ Contains(normalized, "journal") THEN "journal"
        ELSE NoneStr

\* what the cascade reads off the utterance text
TextSignals(text) ==
    LET trimmed == Strip(text)
        lower == Lower(trimmed)
    IN  [trimmed |-> trimmed,
         length |-> Len(lower),
         is_command |-> StartsWith(trimmed, "/"),
         is_search |-> _is_search_query(lower),
         has_additive |-> _has_additive_language(lower),
         has_pronoun_anchor |-> HasPronounAnchor(trimmed),
         has_save |-> _has_save_language(lower),
         has_temporal |-> _has_temporal_marker(lower),
         has_action |-> _has_action_language(lower),
         is_question |-> IsQuestion(trimmed),
         word_count |-> WordCount(trimmed)]

Words(n) == [i \in 1..n |-> "w"]

RECURSIVE Join(_)
Join(words) == IF Len(words) = 0 THEN ""
               ELSE IF Len(words) = 1 THEN words[1]
               ELSE words[1] \o " " \o Join(Tail(words))

\* the utterances the model feeds to the classifier and to the pipeline
Utterances ==
    {"", "   ", "/remind me", "  /find it", "/",
     "find it", "Show me what I wrote about this", "list", "/also", "find it also",
     "also it rained", "i forgot that", "update?",
     "is it done?", "what about that plan",
     "remember to call mom tomorrow", "i ran today", "met her at 3pm", "save this?",
     "log it", "ok", "why?", "hello there", "email me at bob@example.com", "met her on 13/45",
     Join(Words(26)), Join(Words(25)), Join(Words(61)), "save " \o Join(Words(61)),
     "remember today " \o Join(Words(61))}

Signals == [text \in Utterances |-> TextSignals(text)] @@ <<>>

EmptyResult ==
    [label |-> "conversational", confidence |-> 60,
     reasons |-> <<"Empty message defaults to conversational">>,
     targetEntryId |-> NoneStr, targetEntryType |-> NoneStr, duplicateMatch |-> None,
     topCandidates |-> <<_base_candidate("conversational", 60)>>]

CommandResult ==
    [label |-> "command", confidence |-> 99,
     reasons |-> <<"Slash-prefixed command detected">>,
     targetEntryId |-> NoneStr, targetEntryType |-> NoneStr, duplicateMatch |-> None,
     topCandidates |-> <<_base_candidate("command", 99)>>]

SearchResult(sig) ==
    LET confidence == IF sig.length > 24 THEN 94 ELSE 90
    IN  [label |-> "search_query", confidence |-> confidence,
         reasons |-> <<"Search verb detected">>,
         targetEntryId |-> NoneStr, targetEntryType |-> NoneStr, duplicateMatch |-> None,
         topCandidates |-> <<_base_candidate("search_query", confidence),
                             _base_candidate("conversational", 70)>>]

AppendResult(duplicate_meta) ==
    [label |-> "entry_append", confidence |-> 91,
     reasons |-> <<"High-similarity memory match with additive language">>,
     targetEntryId |-> duplicate_meta.id,
     targetEntryType |-> _map_kind_to_entry_type(duplicate_meta.kind),
     duplicateMatch |-> duplicate_meta,
     topCandidates |-> <<_base_candidate("entry_append", 91),
                         _base_candidate("entry_discuss", 80),
                         _base_candidate("entry_create", 60)>>]

DiscussAnchorResult(sig, context_snapshot, duplicate_meta) ==
    [label |-> "entry_discuss", confidence |-> 96,
     reasons |-> <<"Within entry context window with pronoun reference">>,
     targetEntryId |-> context_snapshot.entryId,
     targetEntryType |-> context_snapshot.entryType,
     duplicateMatch |-> duplicate_meta,
     topCandidates |-> <<_base_candidate("entry_discuss", 96),
                         _base_candidate("entry_append", IF sig.has_additive THEN 82 ELSE 70),
                         _base_candidate("entry_create", 60)>>]

\* reasons.append("High-similarity memory match without clear additive cue")
NoCueReasons(sig, duplicate_meta) ==
    IF duplicate_meta # None /\ ~sig.has_additive
    THEN <<"High-similarity memory match without clear additive cue">>
    ELSE <<>>

CreateResult(sig, duplicate_meta) ==
    LET create_confidence ==
            Min(86 + (IF sig.has_save THEN 8 ELSE 0) + (IF sig.has_temporal THEN 3 ELSE 0)
                   + (IF sig.word_count > 60 THEN 3 ELSE 0), 97)
    IN  [label |-> "entry_create", confidence |-> create_confidence,
         reasons |-> NoCueReasons(sig, duplicate_meta)
                     \o <<"Declarative content suitable for structured capture">>
                     \o (IF sig.has_save THEN <<"Explicit save/log intent detected">> ELSE <<>>)
                     \o (IF sig.has_temporal THEN <<"Temporal marker detected">> ELSE <<>>)
                     \o (IF sig.has_action THEN <<"Concrete action verb detected">> ELSE <<>>),
         targetEntryId |-> NoneStr, targetEntryType |-> NoneStr,
         duplicateMatch |-> duplicate_meta,
         topCandidates |-> <<_base_candidate("entry_create", create_confidence),
                             _base_candidate("entry_append", IF duplicate_meta # None THEN 78 ELSE 62),
                             _base_candidate("conversational", 60)>>]

AppendFallbackResult(sig, duplicate_meta) ==
    [label |-> "entry_append", confidence |-> 88,
     reasons |-> NoCueReasons(sig, duplicate_meta)
                 \o <<"Additive phrasing referencing prior context">>,
     targetEntryId |-> duplicate_meta.id,
     targetEntryType |-> _map_kind_to_entry_type(duplicate_meta.kind),
     duplicateMatch |-> duplicate_meta,
     topCandidates |-> <<_base_candidate("entry_append", 88),
                         _base_candidate("entry_discuss", 72),
                         _base_candidate("conversational", 65)>>]

DiscussWindowResult(sig, context_snapshot, duplicate_meta) ==
    [label |-> "entry_discuss", confidence |-> 78,
     reasons |-> NoCueReasons(sig, duplicate_meta)
                 \o <<"Context window active; defaulting follow-up to discuss">>,
     targetEntryId |-> context_snapshot.entryId,
     targetEntryType |-> context_snapshot.entryType,
     duplicateMatch |-> duplicate_meta,
     topCandidates |-> <<_base_candidate("entry_discuss", 78),
                         _base_candidate("entry_create", 60),
                         _base_candidate("conversational", 58)>>]

\* any(duplicate_prefix in message.text.lower() for message in recent)
RecentMatch(duplicate_meta, recent_list) ==
    /\ duplicate_meta # None
    /\ Len(duplicate_meta.text) >= DUPLICATE_MIN_PREFIX_LENGTH
    /\ LET duplicate_prefix == Lower(SubSeq(duplicate_meta.text, 1, DUPLICATE_MIN_PREFIX_LENGTH))
       IN  \E i \in DOMAIN recent_list : Contains(Lower(recent_list[i].text), duplicate_prefix)

AppendRecentResult(sig, duplicate_meta) ==
    [label |-> "entry_append", confidence |-> 80,
     reasons |-> NoCueReasons(sig, duplicate_meta)
                 \o <<"Recent message references similar content; favour append">>,
     targetEntryId |-> duplicate_meta.id,
     targetEntryType |-> _map_kind_to_entry_type(duplicate_meta.kind),
     duplicateMatch |-> duplicate_meta,
     topCandidates |-> <<_base_candidate("entry_append", 80),
                         _base_candidate("entry_discuss", 70),
                         _base_candidate("conversational", 65)>>]

ConversationalResult(sig, context_snapshot, duplicate_meta) ==
    LET conversational_confidence == IF sig.is_question THEN 90 ELSE 82
    IN  [label |-> "conversational", confidence |-> conversational_confidence,
         reasons |-> NoCueReasons(sig, duplicate_meta)
                     \o (IF sig.is_question THEN <<"Question format leaning conversational">>
                         ELSE <<"Defaulting to reflective conversational mode">>),
         targetEntryId |-> IF context_snapshot # None /\ context_snapshot.isActive
                           THEN context_snapshot.entryId ELSE NoneStr,
         targetEntryType |-> IF context_snapshot # None THEN context_snapshot.entryType ELSE NoneStr,
         duplicateMatch |-> duplicate_meta,
         topCandidates |-> <<_base_candidate("conversational", conversational_confidence),
                             _base_candidate("search_query", IF sig.is_question THEN 58 ELSE 40),
                             _base_candidate("entry_create", 35)>>]

\* a classifier that never finds a duplicate among the records
DuplicateMeta_none(records) == None

DuplicateMeta(records) ==
    LET duplicate == _pick_duplicate(records)
    IN  IF duplicate = None THEN None
        ELSE [id |-> duplicate.id, score |-> duplicate.score, text |-> duplicate.text,
              kind |-> duplicate.kind]

\* a tail that tries the declarative-capture rule before the pronoun-anchor rule
CascadeTail_reordered(sig, duplicate_meta, context_snapshot, recent_list) ==
    LET in_window == context_snapshot # None /\ context_snapshot.isActive
    IN  IF duplicate_meta # None /\ sig.has_additive THEN AppendResult(duplicate_meta)
        ELSE IF ~sig.is_question /\ (sig.has_save \/ (sig.has_temporal /\ sig.has_action)
                                     \/ sig.word_count > 25)
             THEN CreateResult(sig, duplicate_meta)
        ELSE IF in_window /\ sig.has_pronoun_anchor
             THEN DiscussAnchorResult(sig, context_snapshot, duplicate_meta)
        ELSE IF sig.has_additive /\ duplicate_meta # None
             THEN AppendFallbackResult(sig, duplicate_meta)
        ELSE IF in_window /\ ~sig.is_question
             THEN DiscussWindowResult(sig, context_snapshot, duplicate_meta)
        ELSE IF RecentMatch(duplicate_meta, recent_list) THEN AppendRecentResult(sig, duplicate_meta)
        ELSE ConversationalResult(sig, context_snapshot, duplicate_meta)

\* classify_riflett_intent from `duplicate = _pick_duplicate(...)` on: the
\* rules that read the memory records and the context window
CascadeTail(sig, duplicate_meta, context_snapshot, recent_list) ==
    LET in_window == context_snapshot # None /\ context_snapshot.isActive
    IN  IF duplicate_meta # None /\ sig.has_additive THEN AppendResult(duplicate_meta)
        ELSE IF in_window /\ sig.has_pronoun_anchor
             THEN DiscussAnchorResult(sig, context_snapshot, duplicate_meta)
        ELSE IF ~sig.is_question /\ (sig.has_save \/ (sig.has_temporal /\ sig.has_action)
                                     \/ sig.word_count > 25)
             THEN CreateResult(sig, duplicate_meta)
        ELSE IF sig.has_additive /\ duplicate_meta # None
             THEN AppendFallbackResult(sig, duplicate_meta)
        ELSE IF in_window /\ ~sig.is_question
             THEN DiscussWindowResult(sig, context_snapshot, duplicate_meta)
        ELSE IF RecentMatch(duplicate_meta, recent_list) THEN AppendRecentResult(sig, duplicate_meta)
        ELSE ConversationalResult(sig, context_snapshot, duplicate_meta)

\* a cascade that looks for a search phrase before the slash prefix
classify_riflett_intent_search_first(text, context_records, context_snapshot, recent_list) ==
    LET sig == Signals[text]
    IN  IF sig.trimmed = "" THEN EmptyResult
        ELSE IF sig.is_search THEN SearchResult(sig)
        ELSE IF sig.is_command THEN CommandResult
        ELSE CascadeTail(sig, DuplicateMeta(context_records), context_snapshot, recent_list)

\* classify_riflett_intent(text, context_records), with the two reads of the
\* context window (window_snapshot(), recent_messages()) passed in
classify_riflett_intent(text, context_records, context_snapshot, recent_list) ==
    LET sig == Signals[text]
    IN  IF sig.trimmed = "" THEN EmptyResult
        ELSE IF sig.is_command THEN CommandResult
        ELSE IF sig.is_search THEN SearchResult(sig)
        ELSE CascadeTail(sig, DuplicateMeta(context_records), context_snapshot, recent_list)

-----------------------------------------------------------------------------
(* The classifier applied to one utterance in one context *)

ContextRecord(id, kind, text, score) == [id |-> id, kind |-> kind, text |-> text, ts |-> 0, score |-> score]

ClassifierRecordLists ==
    {<<>>,
     <<ContextRecord("entry:1", "entry", "Project kickoff complete", 90)>>,
     <<ContextRecord("goal:2", "goal", "Run 5k", 85)>>,
     <<ContextRecord("entry:1", "entry", "Project kickoff complete", 84)>>,
     <<ContextRecord("pref:3", "pref", "Project kickoff complete", 84),
       ContextRecord("event:4", "event", "Project kickoff complete", 97)>>}

ClassifierWindows ==
    {None, WindowState("e1", "journal", 0, RatOne), WindowState("e2", "goal", 0, Rat(27, 125))}

ClassifierRings ==
    {<<>>,
     <<RecentMessage("ok", 0, _compute_message_score("ok"), FALSE)>>,
     <<RecentMessage("ok", 0, _compute_message_score("ok"), FALSE),
       RecentMessage("the PROJECT kickoff complete!", 0,
                     _compute_message_score("the PROJECT kickoff complete!"), FALSE)>>}

InitClassify ==
    /\ state \in ClassifierWindows
    /\ recent_messages \in ClassifierRings
    /\ advRun = -1 /\ receiptsIn = 0 /\ decaySteps = 0
    /\ now = 0
    /\ cl_text \in Utterances
    /\ cl_records \in ClassifierRecordLists
    /\ cl_result = None
    /\ InitRouterIdle
    /\ InitPipelineIdle

Classify ==
    /\ cl_result = None
    /\ cl_result' = classify_riflett_intent(cl_text, cl_records, snapshot, recent)
    /\ UNCHANGED <<windowVars, now, cl_text, cl_records, routerVars, callVars, pipelineVars>>

NextClassify == Classify
SpecClassify == InitClassify /\ [][NextClassify]_vars

-----------------------------------------------------------------------------
(* utils/strings.py *)

IsSeparator(c) == c = "_" \/ IsSpace(c)

\* the parts of re.split(r"[_\s]+", value), capitalised and joined by " "
RECURSIVE TitleWalk(_, _, _)
TitleWalk(s, inWord, out) ==
    IF Len(s) = 0 THEN out
    ELSE LET c == CharAt(s, 1)
             rest == SubSeq(s, 2, Len(s))
         IN  IF IsSeparator(c) THEN TitleWalk(rest, FALSE, out)
             ELSE IF inWord THEN TitleWalk(rest, TRUE, out \o LowerChar(c))
             ELSE TitleWalk(rest, TRUE, (IF out = "" THEN "" ELSE out \o " ") \o UpperChar(c))

to_title_case(value) == TitleWalk(value, FALSE, "")

RECURSIVE RemoveSpaces(_)
RemoveSpaces(s) ==
    IF Len(s) = 0 THEN ""
    ELSE (IF CharAt(s, 1) = " " THEN "" ELSE CharAt(s, 1)) \o RemoveSpaces(SubSeq(s, 2, Len(s)))

to_pascal_case(value) == RemoveSpaces(to_title_case(value))

\* length of the maximal run of characters of one class starting at i
RECURSIVE RunLength(_, _, _)
RunLength(s, i, class) ==
    IF i > Len(s) THEN 0
    ELSE IF (class = "upper" /\ IsUpper(CharAt(s, i)))
            \/ (class = "lower" /\ IsLower(CharAt(s, i)))
            \/ (class = "digit" /\ IsDigit(CharAt(s, i)))
         THEN 1 + RunLength(s, i + 1, class)
    ELSE 0

\* length of the WORD_BOUNDARY match at i, 0 if none:
\* [A-Z]{2,}(?=[A-Z][a-z]+[0-9]*|\b) | [A-Z]?[a-z]+[0-9]* | [A-Z]+ | [0-9]+
WordMatchLength(s, i) ==
    LET upper == RunLength(s, i, "upper")
        acronyms == {k \in 2..upper :
                        \/ (k < upper /\ RunLength(s, i + k + 1, "lower") > 0)
                        \/ WordBoundary(s, i + k)}
        lead == IF upper > 0 THEN 1 ELSE 0
        lower == RunLength(s, i + lead, "lower")
    IN  IF acronyms # {} THEN CHOOSE k \in acronyms : \A j \in acronyms : j <= k
        ELSE IF lower > 0 THEN lead + lower + RunLength(s, i + lead + lower, "digit")
        ELSE IF upper > 0 THEN upper
        ELSE RunLength(s, i, "digit")

\* "_".join(part.lower() for part in WORD_BOUNDARY.findall(trimmed)) from position i on
RECURSIVE SnakeWalk(_, _, _)
SnakeWalk(s, i, out) ==
    IF i > Len(s) THEN out
    ELSE LET n == WordMatchLength(s, i)
         IN  IF n = 0 THEN SnakeWalk(s, i + 1, out)
             ELSE SnakeWalk(s, i + n, (IF out = "" THEN "" ELSE out \o "_")
                                      \o Lower(SubSeq(s, i, i + n - 1)))

RECURSIVE ReplaceChar(_, _, _)
ReplaceChar(s, old, new) ==
    IF Len(s) = 0 THEN ""
    ELSE (IF CharAt(s, 1) = old THEN new ELSE CharAt(s, 1)) \o ReplaceChar(SubSeq(s, 2, Len(s)), old, new)

\* re.sub(r"\s+", "_", s): every whitespace run becomes one "_"
RECURSIVE UnderscoreSpaces(_, _)
UnderscoreSpaces(s, inRun) ==
    IF Len(s) = 0 THEN ""
    ELSE IF IsSpace(CharAt(s, 1))
         THEN (IF inRun THEN "" ELSE "_") \o UnderscoreSpaces(SubSeq(s, 2, Len(s)), TRUE)
    ELSE CharAt(s, 1) \o UnderscoreSpaces(SubSeq(s, 2, Len(s)), FALSE)

to_snake_case(value) ==
    LET trimmed == Strip(value)
        joined == SnakeWalk(trimmed, 1, "")
    IN  IF value = "" THEN ""
        ELSE IF joined # "" THEN joined
        ELSE UnderscoreSpaces(Lower(trimmed), FALSE)

-----------------------------------------------------------------------------
(* Python re: patterns as trees, matched in backtracking priority order *)

Unbounded == -1

AnyOf(chars) == [t |-> "set", chars |-> chars]
NoneOf(chars) == [t |-> "nset", chars |-> chars]
Boundary == [t |-> "wb"]
Cat(items) == [t |-> "cat", items |-> items]
Alt(items) == [t |-> "alt", items |-> items]
Rep(item, min, max) == [t |-> "rep", item |-> item, min |-> min, max |-> max]
Opt(item) == Rep(item, 0, 1)

\* a literal, each letter matching either case when ignore_case
Lit(word, ignore_case) ==
    Cat([i \in 1..Len(word) |->
            AnyOf(IF ignore_case
                  THEN LowerChar(CharAt(word, i)) \o UpperChar(CharAt(word, i))
                  ELSE CharAt(word, i))])

AnyChar == NoneOf("\n")
EndOfText == [t |-> "end"]
Group(n, item) == [t |-> "grp", n |-> n, item |-> item]

MatchState(pos, caps) == [pos |-> pos, caps |-> caps]

\* the states after each way pattern re matches from state st (a position of s
\* and the groups captured so far), the way the backtracking matcher tries
\* first coming first
RECURSIVE Ends(_, _, _)
RECURSIVE EndsFromEach(_, _, _)
RECURSIVE CatEnds(_, _, _, _)
RECURSIVE AltEnds(_, _, _, _)
RECURSIVE RepEnds(_, _, _, _)
RECURSIVE RepMore(_, _, _, _)

EndsFromEach(re, s, starts) ==
    IF Len(starts) = 0 THEN <<>>
    ELSE Ends(re, s, Head(starts)) \o EndsFromEach(re, s, Tail(starts))

CatEnds(items, k, s, starts) ==
    IF k > Len(items) THEN starts
    ELSE CatEnds(items, k + 1, s, EndsFromEach(items[k], s, starts))

AltEnds(items, k, s, st) ==
    IF k > Len(items) THEN <<>>
    ELSE Ends(items[k], s, st) \o AltEnds(items, k + 1, s, st)

\* greedy repetition: one more iteration is tried before stopping
RepMore(re, s, nexts, count) ==
    IF Len(nexts) = 0 THEN <<>>
    ELSE RepEnds(re, s, Head(nexts), count) \o RepMore(re, s, Tail(nexts), count)

RepEnds(re, s, st, count) ==
    (IF re.max = Unbounded \/ count < re.max
     THEN RepMore(re, s, SelectSeq(Ends(re.item, s, st), LAMBDA e : e.pos > st.pos), count + 1)
     ELSE <<>>)
    \o (IF count >= re.min THEN <<st>> ELSE <<>>)

Ends(re, s, st) ==
    CASE re.t = "set" ->
            IF st.pos <= Len(s) /\ Contains(re.chars, CharAt(s, st.pos))
            THEN <<MatchState(st.pos + 1, st.caps)>> ELSE <<>>
      [] re.t = "nset" ->
            IF st.pos <= Len(s) /\ ~Contains(re.chars, CharAt(s, st.pos))
            THEN <<MatchState(st.pos + 1, st.caps)>> ELSE <<>>
      [] re.t = "wb" -> IF WordBoundary(s, st.pos) THEN <<st>> ELSE <<>>
      [] re.t = "end" ->
            IF st.pos = Len(s) + 1 \/ (st.pos = Len(s) /\ CharAt(s, st.pos) = "\n")
            THEN <<st>> ELSE <<>>
      [] re.t = "cat" -> CatEnds(re.items, 1, s, <<st>>)
      [] re.t = "alt" -> AltEnds(re.items, 1, s, st)
      [] re.t = "rep" -> RepEnds(re, s, st, 0)
      [] re.t = "grp" ->
            LET inner == Ends(re.item, s, st)
            IN  [k \in DOMAIN inner |->
                    MatchState(inner[k].pos,
                               Append(inner[k].caps, [n |-> re.n, from |-> st.pos, to |-> inner[k].pos]))]

\* regex.search(s, pos): the leftmost match at or after pos, None if there is none
RECURSIVE Search(_, _, _)
Search(re, s, pos) ==
    IF pos > Len(s) + 1 THEN None
    ELSE LET ends == Ends(re, s, MatchState(pos, <<>>))
         IN  IF Len(ends) > 0
             THEN [start |-> pos, end |-> Head(ends).pos, caps |-> Head(ends).caps]
             ELSE Search(re, s, pos + 1)

\* match.group(n): NoneStr when the group took no part in the match
GroupOf(s, m, n) ==
    LET hits == {k \in DOMAIN m.caps : m.caps[k].n = n}
        last == CHOOSE k \in hits : \A j \in hits : j <= k
    IN  IF hits = {} THEN NoneStr
        ELSE SubSeq(s, m.caps[last].from, m.caps[last].to - 1)

-----------------------------------------------------------------------------
(* redactor.py *)

Letters == UpperChars \o LowerChars
Digit == AnyOf(DigitChars)
SpaceChars == " \t\n"
Separator == AnyOf(SpaceChars \o "-")

EmailPattern ==
    Cat(<<Rep(AnyOf(Letters \o DigitChars \o "._%+-"), 1, Unbounded),
          AnyOf("@"),
          Rep(AnyOf(Letters \o DigitChars \o ".-"), 1, Unbounded),
          AnyOf("."),
          Rep(AnyOf(Letters), 2, Unbounded)>>)

PhonePattern ==
    Cat(<<Opt(Cat(<<Opt(AnyOf("+")), Rep(Digit, 1, 3), Opt(Separator)>>)),
          Alt(<<Cat(<<AnyOf("("), Rep(Digit, 2, 3), AnyOf(")")>>), Rep(Digit, 2, 3)>>),
          Opt(Separator),
          Rep(Digit, 3, 3),
          Opt(Separator),
          Rep(Digit, 4, 4)>>)

CardPattern ==
    Cat(<<Boundary,
          Rep(Cat(<<Digit, Rep(Separator, 0, Unbounded)>>), 13, 19),
          Digit,
          Boundary>>)

StreetSuffix(short, rest, dotted) ==
    IF dotted THEN Cat(<<Lit(short, TRUE), Opt(AnyOf("."))>>)
    ELSE Lit(short \o rest, TRUE)

AddressPattern ==
    Cat(<<Boundary,
          Rep(Digit, 1, 5),
          Rep(AnyOf(SpaceChars), 1, Unbounded),
          Rep(NoneOf("\n,"), 1, Unbounded),
          Alt(<<StreetSuffix("St", "reet", FALSE), StreetSuffix("St", "", TRUE),
                StreetSuffix("Ave", "nue", FALSE), StreetSuffix("Ave", "", TRUE),
                StreetSuffix("Ro", "ad", FALSE), StreetSuffix("Rd", "", TRUE),
                StreetSuffix("Boule", "vard", FALSE), StreetSuffix("Blvd", "", TRUE),
                StreetSuffix("La", "ne", FALSE), StreetSuffix("Ln", "", TRUE),
                StreetSuffix("Dr", "ive", FALSE), StreetSuffix("Dr", "", TRUE),
                StreetSuffix("Cou", "rt", FALSE), StreetSuffix("Ct", "", TRUE),
                StreetSuffix("Pla", "ce", FALSE), StreetSuffix("Pl", "", TRUE)>>),
          Boundary>>)

DigitCount(s) == Cardinality({i \in 1..Len(s) : IsDigit(CharAt(s, i))})

\* is_match_valid of the card pattern; the other patterns have none
CardMatchValid(value) == DigitCount(value) >= 13 /\ DigitCount(value) <= 19

PatternConfig(name, regex, mask, checked) == [name |-> name, regex |-> regex, mask |-> mask, checked |-> checked]

PATTERNS ==
    <<PatternConfig("email", EmailPattern, "EMAIL", FALSE),
      PatternConfig("phone", PhonePattern, "PHONE", FALSE),
      PatternConfig("card", CardPattern, "CARD", TRUE),
      PatternConfig("address", AddressPattern, "ADDR", FALSE)>>

RedactionResult(masked, replacementMap) == [masked |-> masked, replacementMap |-> replacementMap]

\* regex.sub(_replacer, masked) for one pattern: acc holds the text built so
\* far, the replacement map (in insertion order) and the pattern's index
RECURSIVE SubPattern(_, _, _, _)
SubPattern(pattern, s, pos, acc) ==
    LET m == Search(pattern.regex, s, pos)
    IN  IF m = None
        THEN [acc EXCEPT !.masked = @ \o SubSeq(s, pos, Len(s))]
        ELSE LET value == SubSeq(s, m.start, m.end - 1)
                 key == "[" \o pattern.mask \o "_" \o ToString(acc.index) \o "]"
                 before == acc.masked \o SubSeq(s, pos, m.start - 1)
             IN  IF pattern.checked /\ ~CardMatchValid(value)
                 THEN SubPattern(pattern, s, m.end, [acc EXCEPT !.masked = before \o value])
                 ELSE SubPattern(pattern, s, m.end,
                                 [masked |-> before \o key,
                                  map |-> Append(acc.map, [key |-> key, value |-> value]),
                                  index |-> acc.index + 1])

RECURSIVE MaskFrom(_, _, _)
MaskFrom(k, masked, map) ==
    IF k > Len(PATTERNS) THEN RedactionResult(masked, map)
    ELSE LET done == SubPattern(PATTERNS[k], masked, 1, [masked |-> "", map |-> map, index |-> 0])
         IN  MaskFrom(k + 1, done.masked, done.map)

\* Redactor.mask
mask(text) ==
    IF text = "" THEN RedactionResult(text, <<>>)
    ELSE MaskFrom(1, text, <<>>)

\* str.replace(old, new) on s[pos..]: every occurrence, left to right
RECURSIVE ReplaceFrom(_, _, _, _)
ReplaceFrom(s, pos, old, new) ==
    IF pos + Len(old) - 1 > Len(s) THEN SubSeq(s, pos, Len(s))
    ELSE IF SubSeq(s, pos, pos + Len(old) - 1) = old THEN new \o ReplaceFrom(s, pos + Len(old), old, new)
    ELSE SubSeq(s, pos, pos) \o ReplaceFrom(s, pos + 1, old, new)

\* lines 70-71 of Redactor.unmask: the replacements, in the order of the map
RECURSIVE UnmaskFrom(_, _, _)
UnmaskFrom(k, result, mapping) ==
    IF k > Len(mapping) THEN result
    ELSE UnmaskFrom(k + 1, ReplaceFrom(result, 1, mapping[k].key, mapping[k].value), mapping)

\* Redactor.unmask
unmask(text, mapping) == IF text = "" THEN text ELSE UnmaskFrom(1, text, mapping)

-----------------------------------------------------------------------------
(* datetime: aware UTC values as a day number since 1970-01-01 and a time of day *)

DateTime(day, hour, minute, second, microsecond) == [day |-> day, hour |-> hour, minute |-> minute, second |-> second, microsecond |-> microsecond]

IsLeap(y) == (y % 4 = 0 /\ y % 100 # 0) \/ y % 400 = 0

DaysInMonth(y, m) ==
    IF m = 2 THEN (IF IsLeap(y) THEN 29 ELSE 28)
    ELSE IF m \in {4, 6, 9, 11} THEN 30 ELSE 31

\* the checks of the datetime(year, month, day) constructor
ValidDate(y, m, d) == y >= 1 /\ y <= 9999 /\ m >= 1 /\ m <= 12 /\ d >= 1 /\ d <= DaysInMonth(y, m)

DaysFromCivil(y, m, d) ==
    LET yy == IF m <= 2 THEN y - 1 ELSE y
        era == yy \div 400
        yoe == yy - era * 400
        doy == (153 * (IF m > 2 THEN m - 3 ELSE m + 9) + 2) \div 5 + d - 1
        doe == yoe * 365 + yoe \div 4 - yoe \div 100 + doy
    IN  era * 146097 + doe - 719468

CivilFromDays(days) ==
    LET z == days + 719468
        era == z \div 146097
        doe == z - era * 146097
        yoe == (doe - doe \div 1460 + doe \div 36524 - doe \div 146096) \div 365
        doy == doe - (365 * yoe + yoe \div 4 - yoe \div 100)
        mp == (5 * doy + 2) \div 153
        m == IF mp < 10 THEN mp + 3 ELSE mp - 9
    IN  [year |-> yoe + era * 400 + (IF m <= 2 THEN 1 ELSE 0), month |-> m,
         day |-> doy - (153 * mp + 2) \div 5 + 1]

\* datetime.weekday(): Monday is 0
Weekday(dt) == (dt.day + 3) % 7

AddDays(dt, n) == [dt EXCEPT !.day = @ + n]
AddHour(dt) == IF dt.hour = 23 THEN [dt EXCEPT !.day = @ + 1, !.hour = 0] ELSE [dt EXCEPT !.hour = @ + 1]

Before(a, b) ==
    LET ka == <<a.day, a.hour, a.minute, a.second, a.microsecond>>
        kb == <<b.day, b.hour, b.minute, b.second, b.microsecond>>
    IN  \E i \in 1..5 : ka[i] < kb[i] /\ \A j \in 1..(i - 1) : ka[j] = kb[j]

RECURSIVE Pad(_, _)
Pad(digits, width) == IF Len(digits) >= width THEN digits ELSE Pad("0" \o digits, width)

RECURSIVE ToInt(_)
ToInt(digits) ==
    IF Len(digits) = 0 THEN 0
    ELSE 10 * ToInt(SubSeq(digits, 1, Len(digits) - 1)) + (IndexIn(CharAt(digits, Len(digits)), DigitChars) - 1)

-----------------------------------------------------------------------------
(* slot_filler.py *)

WEEKDAY_ORDER == <<"sunday", "monday", "tuesday", "wednesday", "thursday", "friday", "saturday">>
MONTHS == <<"january", "february", "march", "april", "may", "june", "july", "august", "september", "october", "november", "december">>

IndexOf(seq, x) == IF \E i \in DOMAIN seq : seq[i] = x THEN CHOOSE i \in DOMAIN seq : seq[i] = x ELSE 0

Spaces(min) == Rep(AnyOf(SpaceChars), min, Unbounded)

WeekdayPattern ==
    Cat(<<Boundary,
          Opt(Group(1, Alt(<<Lit("next", TRUE), Lit("this", TRUE)>>))),
          Spaces(0),
          Group(2, Alt([i \in DOMAIN WEEKDAY_ORDER |-> Lit(WEEKDAY_ORDER[i], TRUE)])),
          Boundary>>)

IsoDatePattern ==
    Cat(<<Boundary, Group(1, Rep(Digit, 4, 4)), AnyOf("-"), Group(2, Rep(Digit, 2, 2)),
          AnyOf("-"), Group(3, Rep(Digit, 2, 2)), Boundary>>)

SlashDatePattern ==
    Cat(<<Boundary, Group(1, Rep(Digit, 1, 2)), AnyOf("/"), Group(2, Rep(Digit, 1, 2)),
          Opt(Cat(<<AnyOf("/"), Group(3, Rep(Digit, 2, 4))>>)), Boundary>>)

MonthName(short, rest) == IF rest = "" THEN Lit(short, TRUE) ELSE Cat(<<Lit(short, TRUE), Opt(Lit(rest, TRUE))>>)

MonthDatePattern ==
    Cat(<<Boundary,
          Group(1, Alt(<<MonthName("jan", "uary"), MonthName("feb", "ruary"), MonthName("mar", "ch"),
                         MonthName("apr", "il"), MonthName("may", ""), MonthName("jun", "e"),
                         MonthName("jul", "y"), MonthName("aug", "ust"), MonthName("sep", "tember"),
                         MonthName("oct", "ober"), MonthName("nov", "ember"), MonthName("dec", "ember")>>)),
          Spaces(1),
          Group(2, Rep(Digit, 1, 2)),
          Opt(Cat(<<Opt(AnyOf(",")), Spaces(0), Group(3, Rep(Digit, 4, 4))>>)),
          Boundary>>)

TimePattern ==
    Cat(<<Boundary,
          Opt(Alt(<<Lit("at", TRUE), AnyOf("@")>>)),
          Spaces(0),
          Group(1, Rep(Digit, 1, 2)),
          Opt(Cat(<<AnyOf(":"), Group(2, Rep(Digit, 2, 2))>>)),
          Spaces(0),
          Opt(Group(3, Alt(<<Lit("am", TRUE), Lit("pm", TRUE)>>))),
          Boundary>>)

DurationPattern ==
    Cat(<<Lit("for", TRUE), Spaces(1), Group(1, Rep(Digit, 1, 2)), Spaces(0),
          Group(2, Alt(<<Cat(<<Lit("minute", TRUE), Opt(Lit("s", TRUE))>>),
                         Cat(<<Lit("hour", TRUE), Opt(Lit("s", TRUE))>>)>>))>>)

GoalTitlePattern ==
    Cat(<<Alt(<<Lit("goal", TRUE), Lit("aim", TRUE), Lit("plan", TRUE)>>),
          Spaces(1),
          Opt(Alt(<<Lit("to", TRUE), Lit("is to", TRUE)>>)),
          Spaces(0),
          Group(1, Rep(AnyChar, 1, Unbounded)),
          EndOfText>>)

JournalTitlePattern ==
    Cat(<<Alt(<<Lit("about", TRUE), Lit("on", TRUE)>>), Spaces(1),
          Group(1, Rep(NoneOf(".!?"), 1, Unbounded))>>)

\* what the regular expressions of _derive_slots and its helpers find in text
SlotCues(text) ==
    LET weekday == Search(WeekdayPattern, text, 1)
        iso == Search(IsoDatePattern, text, 1)
        slash == Search(SlashDatePattern, text, 1)
        month == Search(MonthDatePattern, text, 1)
        time == Search(TimePattern, text, 1)
        duration == Search(DurationPattern, text, 1)
        goal_title == Search(GoalTitlePattern, text, 1)
        journal_title == Search(JournalTitlePattern, text, 1)
        groups(m) == <<GroupOf(text, m, 1), GroupOf(text, m, 2), GroupOf(text, m, 3)>>
    IN  [weekday |-> IF weekday = None THEN <<>> ELSE groups(weekday),
         relative |-> IF ContainsWord(text, "today") THEN 0
                      ELSE IF ContainsWord(text, "tomorrow") THEN 1
                      ELSE IF ContainsWord(text, "day after tomorrow") THEN 2
                      ELSE -1,
         explicit |-> IF iso # None THEN <<"iso">> \o groups(iso)
                      ELSE IF slash # None THEN <<"slash">> \o groups(slash)
                      ELSE IF month # None THEN <<"month">> \o groups(month)
                      ELSE <<>>,
         tonight |-> ContainsWord(text, "tonight"),
         time |-> IF time = None THEN <<>> ELSE groups(time),
         duration |-> IF duration = None THEN <<>> ELSE groups(duration),
         goal_title |-> IF goal_title = None THEN NoneStr ELSE GroupOf(text, goal_title, 1),
         journal_title |-> IF journal_title = None THEN NoneStr ELSE GroupOf(text, journal_title, 1)]

_clamp_value(value, max_value) == IF value < 0 THEN 0 ELSE IF value > max_value THEN max_value ELSE value

\* _minutes_to_iso
_minutes_to_iso(date) ==
    LET civil == CivilFromDays(date.day)
    IN  Pad(ToString(civil.year), 4) \o "-" \o Pad(ToString(civil.month), 2) \o "-"
        \o Pad(ToString(civil.day), 2) \o "T" \o Pad(ToString(date.hour), 2) \o ":"
        \o Pad(ToString(date.minute), 2) \o ":" \o Pad(ToString(date.second), 2)
        \o (IF date.microsecond = 0 THEN "" ELSE "." \o Pad(ToString(date.microsecond), 6))
        \o "Z"

\* _find_weekday: the target day, None without a match
_find_weekday(cues, clock) ==
    IF cues.weekday = <<>> THEN None
    ELSE LET hint == IF cues.weekday[1] = NoneStr THEN NoneStr ELSE Lower(cues.weekday[1])
             weekday_idx == IndexOf(WEEKDAY_ORDER, Lower(cues.weekday[2])) - 1
             ahead == (weekday_idx - Weekday(clock) + 7) % 7
             days_ahead == IF ahead = 0 /\ hint = "next" THEN 7
                           ELSE IF ahead = 0 /\ hint = "this" THEN 0
                           ELSE IF ahead = 0 /\ hint = NoneStr THEN 7
                           ELSE ahead
         IN  AddDays(clock, days_ahead)

_find_relative_day(cues, clock) ==
    IF cues.relative < 0 THEN None ELSE AddDays(clock, cues.relative)

\* _find_explicit_date: [error, date]; the datetime constructor and
\* MONTHS.index raise ValueError
_find_explicit_date(cues, clock) ==
    LET e == cues.explicit
        made(y, m, d) == IF ValidDate(y, m, d)
                         THEN [error |-> NoneStr, date |-> DateTime(DaysFromCivil(y, m, d), 0, 0, 0, 0)]
                         ELSE [error |-> "ValueError", date |-> None]
        this_year == CivilFromDays(clock.day).year
    IN  IF e = <<>> THEN [error |-> NoneStr, date |-> None]
        ELSE IF e[1] = "iso" THEN made(ToInt(e[2]), ToInt(e[3]), ToInt(e[4]))
        ELSE IF e[1] = "slash"
             THEN made(IF e[4] = NoneStr THEN this_year
                       ELSE IF Len(e[4]) = 2 THEN ToInt("20" \o e[4]) ELSE ToInt(e[4]),
                       ToInt(e[2]), ToInt(e[3]))
        ELSE IF IndexOf(MONTHS, Lower(e[2])) = 0 THEN [error |-> "ValueError", date |-> None]
        ELSE made(IF e[4] = NoneStr THEN this_year ELSE ToInt(e[4]),
                  IndexOf(MONTHS, Lower(e[2])), ToInt(e[3]))

\* _apply_time: the seed with the matched time of day, None without a match
_apply_time(cues, seed) ==
    IF cues.time = <<>> THEN None
    ELSE LET hours == _clamp_value(ToInt(cues.time[1]), 23)
             minutes == _clamp_value(IF cues.time[2] = NoneStr THEN 0 ELSE ToInt(cues.time[2]), 59)
             meridiem == IF cues.time[3] = NoneStr THEN NoneStr ELSE Lower(cues.time[3])
             hours24 == IF meridiem = "pm" /\ hours < 12 THEN hours + 12
                        ELSE IF meridiem = "am" /\ hours = 12 THEN 0
                        ELSE hours
         IN  DateTime(seed.day, hours24, minutes, 0, 0)

_ensure_past_is_future(date, clock) == IF Before(date, clock) THEN AddDays(date, 7) ELSE date

\* the first "T"-separated part of an ISO string
RECURSIVE DatePart(_)
DatePart(iso) ==
    IF Len(iso) = 0 \/ CharAt(iso, 1) = "T" THEN ""
    ELSE CharAt(iso, 1) \o DatePart(SubSeq(iso, 2, Len(iso)))

HasKey(slots, key) == key \in DOMAIN slots
Put(slots, key, value) == (key :> value) @@ slots

\* lines 137-147 of _derive_slots: the candidate date, None when text names
\* no day and no time
CandidateDate(cues, explicit, clock) ==
    With(IF explicit # None THEN explicit
         ELSE IF _find_relative_day(cues, clock) # None THEN _find_relative_day(cues, clock)
         ELSE _find_weekday(cues, clock), LAMBDA named :
    With(IF named = None /\ cues.tonight THEN DateTime(clock.day, 20, 0, 0, 0) ELSE named, LAMBDA before_time :
        IF cues.time = <<>> THEN before_time
        ELSE _apply_time(cues, IF before_time = None THEN clock ELSE before_time)))

\* lines 149-162 of _derive_slots: the slots a candidate date fills
DatedSlots(slots, label, normalized_label, candidate_date, time_applied, clock) ==
    IF candidate_date = None THEN slots
    ELSE With(IF Contains(Lower(label), "schedule") THEN _ensure_past_is_future(candidate_date, clock)
              ELSE candidate_date, LAMBDA adjusted :
         With(_minutes_to_iso(adjusted), LAMBDA iso :
            IF Contains(normalized_label, "schedule")
            THEN (IF ~time_applied
                  THEN Put(Put(slots, "start", iso), "end", _minutes_to_iso(AddHour(adjusted)))
                  ELSE Put(slots, "start", iso))
            ELSE IF Contains(normalized_label, "goal")
                 THEN (IF DatePart(iso) # "" THEN Put(slots, "due", DatePart(iso)) ELSE slots)
            ELSE IF Contains(normalized_label, "journal") THEN Put(slots, "ts", iso)
            ELSE slots))

\* lines 164-170 of _derive_slots
DurationSlots(slots, cues) ==
    IF cues.duration = <<>> THEN slots
    ELSE Put(slots, "duration_minutes",
             ToString(ToInt(cues.duration[1]) * (IF StartsWith(Lower(cues.duration[2]), "hour") THEN 60 ELSE 1)))

\* lines 172-180 of _derive_slots: the title of an intent of the given kind
TitledSlots(slots, normalized_label, kind, title) ==
    IF ~HasKey(slots, "title") /\ Contains(normalized_label, kind) /\ title # NoneStr
    THEN Put(slots, "title", to_title_case(Strip(title)))
    ELSE slots

\* _derive_slots(text, base_intent, options) at time clock, from the cues of
\* text: [error, slots]
_derive_slots(cues, base_intent, clock) ==
    With(Lower(IF base_intent.rawLabel \in {NoneStr, ""} THEN base_intent.label ELSE base_intent.rawLabel), LAMBDA normalized_label :
    With(_find_explicit_date(cues, clock), LAMBDA explicit :
        IF explicit.error # NoneStr THEN [error |-> explicit.error, slots |-> base_intent.slots]
        ELSE With(CandidateDate(cues, explicit.date, clock), LAMBDA candidate_date :
             With(DatedSlots(base_intent.slots, base_intent.label, normalized_label, candidate_date,
                             cues.time # <<>>, clock), LAMBDA dated :
             With(DurationSlots(dated, cues), LAMBDA timed :
             With(TitledSlots(timed, normalized_label, "goal", cues.goal_title), LAMBDA goal_titled :
                 [error |-> NoneStr,
                  slots |-> TitledSlots(goal_titled, normalized_label, "journal", cues.journal_title)]))))))

\* fill: [error, intent]
fill(cues, intent, clock) ==
    With(_derive_slots(cues, intent, clock), LAMBDA derived :
        [error |-> derived.error, intent |-> [intent EXCEPT !.slots = derived.slots]])

-----------------------------------------------------------------------------
(* intent_definitions.py *)

IntentDefinition(id, label) == [id |-> id, label |-> label]

definitions ==
    <<IntentDefinition("conversational", "Conversational"),
      IntentDefinition("entry_create", "Entry Create"),
      IntentDefinition("entry_discuss", "Entry Discuss"),
      IntentDefinition("entry_append", "Entry Append"),
      IntentDefinition("command", "Command"),
      IntentDefinition("search_query", "Search Query")>>

get_intent_definition(label) ==
    LET trimmed == Strip(label)
        normalized == Lower(trimmed)
        safe_label == IF normalized \in {"", "label"} THEN "journal entry" ELSE normalized
        hits == {i \in DOMAIN definitions : Lower(definitions[i].label) = safe_label}
    IN  IF hits # {} THEN definitions[CHOOSE i \in hits : TRUE]
        ELSE IntentDefinition("unknown", IF trimmed = "" THEN "Conversational" ELSE trimmed)

-----------------------------------------------------------------------------
(* intent_routing.py *)

ROUTE_AT_THRESHOLD == 75
CLARIFY_LOWER_THRESHOLD == 45
SECONDARY_INTENT_THRESHOLD == 60

\* Optional[float]: <<>> is None, <<c>> is the number c
NoNumber == <<>>
Number(c) == <<c>>
OrZero(opt) == IF opt = NoNumber THEN 0 ELSE opt[1]

_clamp(value) == IF value < 0 THEN 0 ELSE IF value > 100 THEN 100 ELSE value

\* the dedupe loop of _normalize_top_k: first occurrence of each label, clamped
RECURSIVE DedupeByLabel(_, _)
DedupeByLabel(items, seen) ==
    IF Len(items) = 0 THEN <<>>
    ELSE LET item == Head(items)
         IN  IF item.label \in seen THEN DedupeByLabel(Tail(items), seen)
             ELSE <<[label |-> item.label, confidence |-> _clamp(item.confidence)]>>
                  \o DedupeByLabel(Tail(items), seen \cup {item.label})

\* sorted(normalized, key=confidence, reverse=True): stable
RECURSIVE InsertByConfidence(_, _)
InsertByConfidence(sorted, c) ==
    IF Len(sorted) = 0 THEN <<c>>
    ELSE IF Head(sorted).confidence >= c.confidence
         THEN <<Head(sorted)>> \o InsertByConfidence(Tail(sorted), c)
    ELSE <<c>> \o sorted

RECURSIVE SortByConfidence(_)
SortByConfidence(items) ==
    IF Len(items) = 0 THEN <<>>
    ELSE InsertByConfidence(SortByConfidence(SubSeq(items, 1, Len(items) - 1)), items[Len(items)])

_normalize_top_k(native_top_k) == SortByConfidence(DedupeByLabel(native_top_k, {}))

RoutedIntent(label, rawLabel, confidence, secondBest, secondConfidence, slots, topK, matchedTokens, modelVersion) ==
    [label |-> label, rawLabel |-> rawLabel, confidence |-> confidence,
     secondBest |-> secondBest, secondConfidence |-> secondConfidence, slots |-> slots,
     topK |-> topK, matchedTokens |-> matchedTokens, modelVersion |-> modelVersion]

\* get_intent_definition and to_pascal_case of its label, tabulated once for
\* the labels of the definitions and of the candidates, and computed for
\* every other label
CandidateLabels == {"Entry Create", "entry create", "Goal Create", "Conversational"}
DefinedLabels == {definitions[i].label : i \in DOMAIN definitions} \cup CandidateLabels \cup {"command "}
DefinitionByLabel == [label \in DefinedLabels |-> get_intent_definition(label)] @@ <<>>
PascalByLabel == [label \in DefinedLabels |-> to_pascal_case(DefinitionByLabel[label].label)] @@ <<>>

RawLabel(label) ==
    IF label \in DefinedLabels THEN DefinitionByLabel[label].label ELSE get_intent_definition(label).label

PascalLabel(label) ==
    IF label \in DefinedLabels THEN PascalByLabel[label] ELSE to_pascal_case(get_intent_definition(label).label)

\* build_routed_intent(native_intent, slots); get_intent_definition always
\* returns a definition, so every label goes through to_pascal_case
build_routed_intent(native_intent, slots) ==
    LET top_k == _normalize_top_k(IF Len(native_intent.topK) > 0 THEN native_intent.topK
                                  ELSE native_intent.top3)
        primary == IF Len(top_k) > 0 THEN top_k[1]
                   ELSE [label |-> native_intent.label, confidence |-> _clamp(native_intent.confidence)]
        others == {i \in DOMAIN top_k : top_k[i].label # primary.label}
        resolved_top_k == IF Len(top_k) > 0 THEN top_k ELSE <<primary>>
    IN  RoutedIntent(
            PascalLabel(primary.label),
            RawLabel(primary.label),
            _clamp(primary.confidence),
            IF others = {} THEN NoneStr
            ELSE PascalLabel(top_k[CHOOSE i \in others : \A j \in others : i <= j].label),
            IF others = {} THEN NoNumber
            ELSE Number(_clamp(top_k[CHOOSE i \in others : \A j \in others : i <= j].confidence)),
            slots,
            resolved_top_k,
            [i \in DOMAIN resolved_top_k |->
                [label |-> PascalLabel(resolved_top_k[i].label),
                 tokens |-> <<>>]],
            native_intent.modelVersion)

RouteDecision(kind, primary, maybeSecondary, question) ==
    [kind |-> kind, primary |-> primary, maybeSecondary |-> maybeSecondary, question |-> question]

\* a router whose thresholds are exclusive
route_intent_exclusive(intent) ==
    IF intent.confidence > ROUTE_AT_THRESHOLD
    THEN RouteDecision("commit", intent.label,
                       IF OrZero(intent.secondConfidence) > SECONDARY_INTENT_THRESHOLD
                       THEN intent.secondBest ELSE NoneStr,
                       NoneStr)
    ELSE IF intent.confidence > CLARIFY_LOWER_THRESHOLD
    THEN RouteDecision("clarify", NoneStr, NoneStr,
                       "Did you want to " \o ReplaceChar(to_snake_case(intent.label), "_", " ") \o "?")
    ELSE RouteDecision("fallback", NoneStr, NoneStr, NoneStr)

route_intent(intent) ==
    IF intent.confidence >= ROUTE_AT_THRESHOLD
    THEN RouteDecision("commit", intent.label,
                       IF OrZero(intent.secondConfidence) >= SECONDARY_INTENT_THRESHOLD
                       THEN intent.secondBest ELSE NoneStr,
                       NoneStr)
    ELSE IF intent.confidence >= CLARIFY_LOWER_THRESHOLD
    THEN RouteDecision("clarify", NoneStr, NoneStr,
                       "Did you want to " \o ReplaceChar(to_snake_case(intent.label), "_", " ") \o "?")
    ELSE RouteDecision("fallback", NoneStr, NoneStr, NoneStr)

-----------------------------------------------------------------------------
(* The router applied to one routed intent *)

RouterLabels == {"EntryCreate", "HTTPRequest2 now"}
RouterConfidences == 0..100
RouterSeconds == {NoNumber, Number(0), Number(59), Number(60), Number(61), Number(100)}
RouterSecondLabels == {NoneStr, "Conversational"}

RouterIntents ==
    {RoutedIntent(label, label, confidence, secondBest, secondConfidence, <<>>, <<>>, <<>>, NoneStr) :
        label \in RouterLabels, confidence \in RouterConfidences,
        secondBest \in RouterSecondLabels, secondConfidence \in RouterSeconds}

InitRoute ==
    /\ InitWindow /\ now = 0 /\ InitClassifierIdle /\ InitPipelineIdle
    /\ rt_intent \in RouterIntents
    /\ rt_decision = None

Route ==
    /\ rt_decision = None
    /\ rt_decision' = route_intent(rt_intent)
    /\ UNCHANGED <<windowVars, now, classifierVars, rt_intent, callVars, pipelineVars>>

NextRoute == Route
SpecRoute == InitRoute /\ [][NextRoute]_vars

-----------------------------------------------------------------------------
(* embeddings.py, with a custom embedder set: vectors are pairs of integers in
   fifths, <<3, 4>> standing for (0.6, 0.8) *)

Isqrt(n) == CHOOSE r \in 0..n : r * r = n

l2_normalize(vector) ==
    LET norm2 == vector[1] * vector[1] + vector[2] * vector[2]
    IN  IF norm2 = 0 THEN <<0, 0>>
        ELSE <<(5 * 5 * vector[1]) \div Isqrt(norm2 * 25), (5 * 5 * vector[2]) \div Isqrt(norm2 * 25)>>

\* the embedder installed by set_custom_embedder: any function of the text
_custom_embedder(text) ==
    IF text = "" THEN <<0, 0>>
    ELSE IF Contains(Lower(text), "plan") THEN <<6, 8>>
    ELSE IF Contains(Lower(text), "mom") THEN <<0, 5>>
    ELSE <<5, 0>>

embed_text(text) == l2_normalize(_custom_embedder(text))

-----------------------------------------------------------------------------
(* memory.py: _memory_cache is the sequence of its rows in insertion order;
   scores are hundredths *)

MAX_CACHED_ROWS == 512
REMOTE_BRIEF_LIMIT == 9

MemoryRow(id, kind, text, ts, embedding) == [id |-> id, kind |-> kind, text |-> text, ts |-> ts, embedding |-> embedding]
MemoryRecord(row, score) == [id |-> row.id, kind |-> row.kind, text |-> row.text, ts |-> row.ts, embedding |-> row.embedding, score |-> score]

\* sorted(scores, key=score, reverse=True): a stable sort, so the records of
\* the largest of the scores come first, in their order in records
RECURSIVE SortByScoreFrom(_, _)
SortByScoreFrom(records, scores) ==
    IF scores = {} THEN <<>>
    ELSE With(CHOOSE top \in scores : \A other \in scores : other <= top, LAMBDA top :
             SelectSeq(records, LAMBDA r : r.score = top) \o SortByScoreFrom(records, scores \ {top}))

SortByScore(records) == SortByScoreFrom(records, {records[i].score : i \in DOMAIN records})

_cosine_scores(query, rows) ==
    LET normalized_query == l2_normalize(query)
        dot(row) == normalized_query[1] * row.embedding[1] + normalized_query[2] * row.embedding[2]
    IN  SortByScore([i \in DOMAIN rows |-> MemoryRecord(rows[i], 4 * dot(rows[i]))])

Take(seq, n) == SubSeq(seq, 1, Min(n, Len(seq)))

\* sorted(rows, key=ts, reverse=True): a stable sort, so the rows of the
\* largest of the stamps come first, in their order in rows
RECURSIVE SortByTsFrom(_, _)
SortByTsFrom(rows, stamps) ==
    IF stamps = {} THEN <<>>
    ELSE With(CHOOSE top \in stamps : \A other \in stamps : other <= top, LAMBDA top :
             SelectSeq(rows, LAMBDA row : row.ts = top) \o SortByTsFrom(rows, stamps \ {top}))

SortByTs(rows) == SortByTsFrom(rows, {rows[i].ts : i \in DOMAIN rows})

\* lines 236-240 of Memory.upsert: the row stored under its id
Stored(cache, row) ==
    IF \E i \in DOMAIN cache : cache[i].id = row.id
    THEN [i \in DOMAIN cache |-> IF cache[i].id = row.id THEN row ELSE cache[i]]
    ELSE Append(cache, row)

\* Memory.upsert that never trims the cache
upsert_untrimmed(cache, id, kind, text, ts, embedding) ==
    Stored(cache, MemoryRow(id, kind, text, ts, l2_normalize(embedding)))

\* Memory.upsert with ts and embedding given: the cache after it
upsert(cache, id, kind, text, ts, embedding) ==
    With(Stored(cache, MemoryRow(id, kind, text, ts, l2_normalize(embedding))), LAMBDA stored :
        IF Len(stored) > MAX_CACHED_ROWS THEN Take(SortByTs(stored), MAX_CACHED_ROWS) ELSE stored)

\* Memory.upsert(options) at time clock: ts defaults to the clock, the
\* embedding to that of the text
Upserted(cache, options, clock) ==
    upsert(cache, options.id, options.kind, options.text,
           IF "ts" \in DOMAIN options THEN options.ts ELSE clock,
           IF "embedding" \in DOMAIN options /\ options.embedding # <<>> THEN options.embedding
           ELSE embed_text(options.text))

\* Memory.remove
remove(cache, row_id) == SelectSeq(cache, LAMBDA row : row.id # row_id)

_map_kinds_to_rag(kinds) ==
    (IF {"entry", "journal", "pref"} \cap kinds # {} THEN <<"entry">> ELSE <<>>)
    \o (IF "goal" \in kinds THEN <<"goal">> ELSE <<>>)
    \o (IF {"schedule", "event"} \cap kinds # {} THEN <<"schedule">> ELSE <<>>)

\* _rag_search: the seeded results, whatever the scope, cut to the limit:
\* [error, results]; float() raises on a score that is not a number
_rag_search(rag, query, limit) ==
    IF Strip(query) = "" THEN [error |-> NoneStr, results |-> <<>>]
    ELSE IF \E i \in DOMAIN Take(rag, limit) : rag[i].score = NoNumber
         THEN [error |-> "ValueError", results |-> <<>>]
    ELSE [error |-> NoneStr, results |-> [i \in DOMAIN Take(rag, limit) |-> [rag[i] EXCEPT !.score = rag[i].score[1]]]]

RECURSIVE UpsertAll(_, _)
UpsertAll(cache, records) ==
    IF Len(records) = 0 THEN cache
    ELSE UpsertAll(upsert(cache, Head(records).id, Head(records).kind, Head(records).text,
                          Head(records).ts, Head(records).embedding),
                   Tail(records))

\* the local cosine search of Memory.search_top_n (lines 174-176)
LocalSearch(cache, query, kinds, top_k) ==
    Take(_cosine_scores(embed_text(query), SelectSeq(cache, LAMBDA row : kinds = {} \/ Lower(row.kind) \in kinds)), top_k)

\* [error, records, cache] of Memory.search_top_n
Found(error, records, cache) == [error |-> error, records |-> records, cache |-> cache]

\* lines 148-170 of Memory.search_top_n: the records built from the remote
\* results at time clock
RemoteRecords(results, clock) ==
    [i \in DOMAIN results |->
        [id |-> results[i].kind \o ":" \o results[i].id,
         kind |-> results[i].kind,
         text |-> results[i].snippet,
         ts |-> clock - (i - 1),
         embedding |-> embed_text(results[i].snippet),
         score |-> results[i].score]]

\* lines 144-172 of Memory.search_top_n: the remote retrieval, None for the
\* fall back to the local search
RemoteSearch(cache, user, rag, query, top_k, clock) ==
    IF user = NoneStr THEN None
    ELSE With(_rag_search(rag, query, top_k), LAMBDA remote :
            IF remote.error # NoneStr \/ Len(remote.results) = 0 THEN None
            ELSE Found(NoneStr, Take(RemoteRecords(remote.results, clock), top_k),
                       UpsertAll(cache, RemoteRecords(remote.results, clock))))

\* lines 144-148 of Memory.search_top_n: the query that _rag_search is awaited
\* with, NoneStr when no user is signed in
RemoteQuery(user, query) == IF user = NoneStr THEN NoneStr ELSE query

\* Memory.search_top_n without the try around the remote retrieval
search_top_n_raising(cache, user, rag, query_raw, kinds, top_k_raw, clock) ==
    IF user # NoneStr /\ Strip(query_raw) # "" /\ _rag_search(rag, Strip(query_raw), Max(1, Min(top_k_raw, 20))).error # NoneStr
    THEN Found("ValueError", <<>>, cache)
    ELSE Found(NoneStr, LocalSearch(cache, Strip(query_raw), kinds, Max(1, Min(top_k_raw, 20))), cache)

\* Memory.search_top_n at time clock
search_top_n(cache, user, rag, query_raw, kinds, top_k_raw, clock) ==
    With(Strip(query_raw), LAMBDA query :
    With(Max(1, Min(top_k_raw, 20)), LAMBDA top_k :
        IF query = "" THEN Found(NoneStr, <<>>, cache)
        ELSE With(RemoteSearch(cache, user, rag, query, top_k, clock), LAMBDA remote :
                IF remote # None THEN remote
                ELSE Found(NoneStr, LocalSearch(cache, query, kinds, top_k), cache))))

\* Memory.get_brief without the check of the user id
get_brief_unchecked(cache, uid, user, rag, query, limit_raw, clock) ==
    With(_rag_search(rag, query, Max(3, Min(limit_raw, REMOTE_BRIEF_LIMIT))), LAMBDA remote :
        IF remote.error # NoneStr THEN [error |-> remote.error, cache |-> cache, rag |-> <<>>, memoryRecords |-> <<>>]
        ELSE [error |-> NoneStr, cache |-> UpsertAll(cache, RemoteRecords(remote.results, clock)),
              rag |-> remote.results, memoryRecords |-> RemoteRecords(remote.results, clock)])

\* Memory.get_brief at time clock: [error, cache, rag, memoryRecords]; uid
\* and the authenticated user are tried in turn, "" and None count as missing
get_brief(cache, uid, user, rag, query, limit_raw, clock) ==
    IF uid \in {NoneStr, ""} /\ user \in {NoneStr, ""}
    THEN [error |-> "ValueError", cache |-> cache, rag |-> <<>>, memoryRecords |-> <<>>]
    ELSE With(_rag_search(rag, query, Max(3, Min(limit_raw, REMOTE_BRIEF_LIMIT))), LAMBDA remote :
            IF remote.error # NoneStr THEN [error |-> remote.error, cache |-> cache, rag |-> <<>>, memoryRecords |-> <<>>]
            ELSE [error |-> NoneStr, cache |-> UpsertAll(cache, RemoteRecords(remote.results, clock)),
                  rag |-> remote.results, memoryRecords |-> RemoteRecords(remote.results, clock)])

-----------------------------------------------------------------------------
(* pipeline.py: scoring of the context records; weights and scores are
   millionths, composite scores 1e-8 *)

priority_weight_by_kind(kind) ==
    CASE kind = "goal" -> 1000000 [] kind = "schedule" -> 750000 [] kind = "entry" -> 550000
      [] kind = "event" -> 450000 [] kind = "pref" -> 350000 [] OTHER -> 400000

relationship_weight_by_kind(kind) ==
    CASE kind = "goal" -> 850000 [] kind = "schedule" -> 700000 [] kind = "entry" -> 500000
      [] kind = "event" -> 400000 [] kind = "pref" -> 350000 [] OTHER -> 400000

_clamp01(value) == IF value < 0 THEN 0 ELSE IF value > 1000000 THEN 1000000 ELSE value

\* 1 / (1 + exp(-z)) to six decimals, for the z the model's record lists give
_logistic(z) == CASE z = -1 -> 268941 [] z = 0 -> 500000 [] z = 1 -> 731059

RECURSIVE SumTs(_)
SumTs(records) == IF Len(records) = 0 THEN 0 ELSE Head(records).ts + SumTs(Tail(records))

RECURSIVE SumSquares(_, _, _)
SumSquares(records, n, total) ==
    IF Len(records) = 0 THEN 0
    ELSE (n * Head(records).ts - total) * (n * Head(records).ts - total) + SumSquares(Tail(records), n, total)

\* (record.ts - mean_ts) / std_ts, std_ts being 1 when the variance is 0; the
\* value is 0, 1 or -1 for lists of one or two records
recency_z(record, records) ==
    LET n == Len(records)
        deviation == n * record.ts - SumTs(records)
        squares == SumSquares(records, n, SumTs(records))
    IN  CASE squares = 0 -> 0
          [] squares # 0 /\ deviation = 0 -> 0
          [] squares # 0 /\ n * deviation * deviation = squares -> IF deviation > 0 THEN 1 ELSE -1

coaching_score(kind, suggestion_type) ==
    CASE suggestion_type = NoneStr -> 500000
      [] suggestion_type = "goal_check" -> IF kind = "goal" THEN 1000000 ELSE 350000
      [] suggestion_type = "reflection" -> IF kind = "entry" THEN 1000000 ELSE 350000
      [] OTHER -> 600000

RECURSIVE InsertByComposite(_, _)
InsertByComposite(sorted, r) ==
    IF Len(sorted) = 0 THEN <<r>>
    ELSE IF Head(sorted).compositeScore >= r.compositeScore
         THEN <<Head(sorted)>> \o InsertByComposite(Tail(sorted), r)
    ELSE <<r>> \o sorted

RECURSIVE SortByComposite(_)
SortByComposite(records) ==
    IF Len(records) = 0 THEN <<>>
    ELSE InsertByComposite(SortByComposite(SubSeq(records, 1, Len(records) - 1)), records[Len(records)])

\* score_context_records without a userTimeZone option (time_of_day_score 0.5)
score_context_records(records, suggestion_type) ==
    LET composite(record) ==
            30 * _logistic(recency_z(record, records))
            + 25 * priority_weight_by_kind(record.kind)
            + 15 * _clamp01((record.score * 10000 + 1000000) \div 2)
            + 10 * 500000
            + 10 * relationship_weight_by_kind(record.kind)
            + 5 * _clamp01(500000)
            + 5 * _clamp01(coaching_score(record.kind, suggestion_type))
    IN  SortByComposite([i \in DOMAIN records |->
            [id |-> records[i].id, kind |-> records[i].kind, text |-> records[i].text,
             ts |-> records[i].ts, embedding |-> records[i].embedding, score |-> records[i].score,
             compositeScore |-> composite(records[i])]])

-----------------------------------------------------------------------------
(* asyncio.Lock: acquire takes a free lock at once and otherwise queues the
   task; release unlocks and wakes the first waiter, which takes the lock when
   it next runs *)

CanAcquire(lock) == ~lock.locked /\ lock.waiters = <<>>
Acquired(lock, t, resumed) == Lock(TRUE, t, IF resumed THEN Tail(lock.waiters) ELSE lock.waiters)
Released(lock) == Lock(FALSE, NoneStr, lock.waiters)
Enqueued(lock, t) == Lock(lock.locked, lock.holder, Append(lock.waiters, t))
Woken(lock, t) == ~lock.locked /\ Len(lock.waiters) > 0 /\ Head(lock.waiters) = t

-----------------------------------------------------------------------------
(* user_config.py *)

CONFIG_REFRESH_WINDOW_MS == 300000

RuntimeConfig(user_settings, persona, cadence, tone, spiritual_on, bluntness, privacy_gates, crisis_rules, resolved_at) == [user_settings |-> user_settings, persona |-> persona, cadence |-> cadence, tone |-> tone, spiritual_on |-> spiritual_on, bluntness |-> bluntness, privacy_gates |-> privacy_gates, crisis_rules |-> crisis_rules, resolved_at |-> resolved_at]

_default_runtime(clock) == RuntimeConfig(None, NoneStr, "none", "neutral", FALSE, 5, <<>>, <<>>, clock)

\* _merge_configs, for a patch of valid field values
_merge_configs(current, patch, clock) ==
    LET merged == patch @@ current
        patched(key) == IF key \in DOMAIN patch THEN patch[key] ELSE <<>>
    IN  [merged EXCEPT !.privacy_gates = patched("privacy_gates") @@ merged.privacy_gates,
                       !.crisis_rules = patched("crisis_rules") @@ merged.crisis_rules,
                       !.resolved_at = IF "resolved_at" \in DOMAIN patch THEN patch.resolved_at ELSE clock]

\* the body of UserConfig.snapshot under the lock: [cache, result]
SnapshotBody(cache, clock) ==
    IF cache # None THEN [cache |-> cache, result |-> cache]
    ELSE [cache |-> _default_runtime(clock), result |-> _default_runtime(clock)]

_needs_refresh(config, clock) ==
    \/ (config.user_settings = None /\ config.persona \in {NoneStr, ""})
    \/ clock - config.resolved_at > CONFIG_REFRESH_WINDOW_MS

_to_payload_config(config) == config

-----------------------------------------------------------------------------
(* cache.py: EdgeCache._store is a function from store keys to entries. A
   hash is a 32-bit number, kept as its two 16-bit halves <<high, low>>. *)

STORAGE_PREFIX == "riflett_cache:"

\* ord(char) for the letters, digits, blanks and JSON marks of the keys
ord(c) ==
    IF IsUpper(c) THEN 64 + IndexIn(c, UpperChars)
    ELSE IF IsLower(c) THEN 96 + IndexIn(c, LowerChars)
    ELSE IF IsDigit(c) THEN 47 + IndexIn(c, DigitChars)
    ELSE IF c = ":" THEN 58
    ELSE IF c = "\"" THEN 34
    ELSE IF c = "," THEN 44
    ELSE IF c = "[" THEN 91
    ELSE IF c = "]" THEN 93
    ELSE IF c = "{" THEN 123
    ELSE IF c = "}" THEN 125
    ELSE 32

\* ((hash << 5) - hash + code) & 0xFFFFFFFF
HashStep(hash, code) ==
    With(31 * hash[2] + code, LAMBDA low :
        <<(31 * hash[1] + low \div 65536) % 65536, low % 65536>>)

\* x * y mod 2^16, for x and y below 2^16
MulLow(x, y) == (x * (y % 256) + ((x * (y \div 256)) % 256) * 256) % 65536

\* a * b & 0xFFFFFFFF
HashTimes(a, b) ==
    With(a[2] * (b[2] \div 256), LAMBDA q :
        With(a[2] * (b[2] % 256) + (q % 256) * 256, LAMBDA low :
            <<(MulLow(a[1], b[2]) + MulLow(a[2], b[1]) + q \div 256 + low \div 65536) % 65536, low % 65536>>))

\* 31^n & 0xFFFFFFFF
RECURSIVE Pow31(_)
Pow31(n) ==
    IF n = 0 THEN <<0, 1>>
    ELSE IF n % 2 = 1 THEN HashTimes(Pow31(n - 1), <<0, 31>>)
    ELSE With(Pow31(n \div 2), LAMBDA half : HashTimes(half, half))

HashSum(a, b) == <<(a[1] + b[1] + (a[2] + b[2]) \div 65536) % 65536, (a[2] + b[2]) % 65536>>

\* the loop of _hash_string over value[lo..hi], from the hash 0: the hash of
\* the first half, taken through the chars of the second, which multiply it
\* by 31 each
RECURSIVE HashRange(_, _, _)
HashRange(value, lo, hi) ==
    IF lo > hi THEN <<0, 0>>
    ELSE IF lo = hi THEN HashStep(<<0, 0>>, ord(CharAt(value, lo)))
    ELSE HashSum(HashTimes(HashRange(value, lo, (lo + hi) \div 2), Pow31(hi - (lo + hi) \div 2)),
                 HashRange(value, (lo + hi) \div 2 + 1, hi))

\* str(hash): the decimal digits of 65536 * high + low
RECURSIVE Decimal(_)
Decimal(hash) ==
    With((hash[1] % 10) * 65536 + hash[2], LAMBDA rest :
        IF hash[1] \div 10 = 0 /\ rest \div 10 = 0 THEN ToString(rest)
        ELSE Decimal(<<hash[1] \div 10, rest \div 10>>) \o ToString(rest % 10))

_hash_string(value) == Decimal(HashRange(value, 1, Len(value)))

\* a cache addressed by the raw key itself
_build_key_raw(raw) == STORAGE_PREFIX \o raw

_build_key(raw) == STORAGE_PREFIX \o _hash_string(raw)

CacheEntry(value, expires_at) == [value |-> value, expires_at |-> expires_at]

\* lines 37-44 of EdgeCache.get, on the store key: the store it leaves and the
\* value it returns (NoneStr for None)
GetEntry(store, key, clock) ==
    IF key \notin DOMAIN store THEN [store |-> store, result |-> NoneStr]
    ELSE IF store[key].expires_at < clock
         THEN [store |-> [k \in DOMAIN store \ {key} |-> store[k]], result |-> NoneStr]
    ELSE [store |-> store, result |-> store[key].value]

\* EdgeCache.get(raw_key) at the time clock
get(store, raw_key, clock) == GetEntry(store, _build_key(raw_key), clock)

\* lines 48-52 of EdgeCache.set, on the store key
SetEntry(store, key, value, ttl_ms, clock) == (key :> CacheEntry(value, clock + ttl_ms)) @@ store

\* EdgeCache.set(raw_key, value, ttl_ms) at the time clock
set(store, raw_key, value, ttl_ms, clock) == SetEntry(store, _build_key(raw_key), value, ttl_ms, clock)

-----------------------------------------------------------------------------
(* planner.py: an EnrichedPayload is [label, slots, context, text]: its
   intent's label and slots, contextSnippets and userText, with an empty
   userConfig and no goalContext. A dict is a record; slots are the empty
   dict, written <<>>. *)

MINUTE_MS == 60 * 1000

PlannerResponse(action, ask, payload) == [action |-> action, ask |-> ask, payload |-> payload]

\* json.dumps of a list of strings
RECURSIVE JsonItems(_)
JsonItems(items) ==
    IF items = <<>> THEN ""
    ELSE "\"" \o Head(items) \o "\"" \o (IF Len(items) > 1 THEN ", " ELSE "") \o JsonItems(Tail(items))

\* json.dumps({...}, sort_keys=True)
_build_cache_key(payload) ==
    "{\"context\": [" \o JsonItems(payload.context) \o "], \"goalContext\": null, \"label\": \""
        \o payload.label \o "\", \"slots\": {}, \"text\": \"" \o payload.text \o "\", \"userConfig\": {}}"

_planner_ttl(action) ==
    IF action = "reflect" THEN 2 * MINUTE_MS
    ELSE IF action = "settings.update" THEN 5 * MINUTE_MS
    ELSE IF action = "noop" THEN MINUTE_MS
    ELSE 0

HeuristicAction(label) ==
    IF Contains(label, "schedule") THEN "schedule.create"
    ELSE IF Contains(label, "goal") THEN "goal.create"
    ELSE IF Contains(label, "journal") \/ Contains(label, "entry") THEN "journal.create"
    ELSE IF Contains(label, "reflect") THEN "reflect"
    ELSE IF Contains(label, "command") THEN "settings.update"
    ELSE "noop"

_heuristic_plan(payload) ==
    PlannerResponse(HeuristicAction(Lower(payload.label)), NoneStr,
                    [slots |-> payload.slots, context |-> payload.context])

PLANNER_ACTIONS == {"journal.create", "goal.create", "schedule.create", "reflect", "settings.update", "noop"}

\* lines 44-51 of _parse_tool_arguments, on a parsed dict
_parse_tool_arguments(parsed) ==
    /\ "action" \in DOMAIN parsed
    /\ parsed.action \in PLANNER_ACTIONS
    /\ "payload" \in DOMAIN parsed

PlannerPayload(label, context) == [label |-> label, slots |-> <<>>, context |-> context, text |-> "hi"]

\* payloads of every action; the keys of the first two differ in "Aa" and
\* "BB", which have one hash
PlannerPayloads ==
    {PlannerPayload("Conversational", <<"Aa">>), PlannerPayload("Conversational", <<"BB">>),
     PlannerPayload("Command", <<>>), PlannerPayload("Reflect", <<>>),
     PlannerPayload("Entry Create", <<>>), PlannerPayload("Goal Create", <<>>),
     PlannerPayload("Schedule Create", <<>>)}

\* _build_key(cache_key) of these payloads, computed once
StoreKeys == [payload \in PlannerPayloads |-> _build_key(_build_cache_key(payload))]

\* the store key that EdgeCache.get and EdgeCache.set make of the payload's cache_key
StoreKey(payload) ==
    IF payload \in PlannerPayloads THEN StoreKeys[payload] ELSE _build_key(_build_cache_key(payload))

\* EdgeCache.get returns an entry's value rather than None
Cached(store, key, clock) == key \in DOMAIN store /\ ~(store[key].expires_at < clock)

Planned(store, error, response, cached) == [store |-> store, error |-> error, response |-> response, cached |-> cached]

\* lines 103-110: the plan on a miss, on the store that EdgeCache.get left
FreshPlan(store, payload, clock) ==
    With(_heuristic_plan(payload), LAMBDA response :
        Planned(IF _planner_ttl(response.action) > 0
                THEN SetEntry(store, StoreKey(payload), response, _planner_ttl(response.action), clock)
                ELSE store,
                NoneStr, response, FALSE))

\* await plan_action({"payload": payload}) at the time clock. A cached dict
\* goes through PlannerResponse(**cached), which raises when a field is missing.
plan_action(store, payload, clock) ==
    IF Cached(store, StoreKey(payload), clock)
    THEN With(store[StoreKey(payload)].value, LAMBDA cached :
             IF {"action", "ask", "payload"} \subseteq DOMAIN cached
             THEN Planned(store, NoneStr, cached, TRUE)
             ELSE Planned(store, "ValidationError", None, TRUE))
    ELSE FreshPlan(GetEntry(store, StoreKey(payload), clock).store, payload, clock)

-----------------------------------------------------------------------------
(* ai_legacy/schemas/validator.py: call_with_retry. What an attempt of
   call_fn does is [raises, error] or [raises, result]; the validator gives
   [raises, error] or [raises, valid, errors]. A run is the locals of the
   loop with the hints call_fn was given and the outcome of the call. *)

RECURSIVE JoinComma(_)
JoinComma(items) ==
    IF items = <<>> THEN ""
    ELSE Head(items) \o (IF Len(items) > 1 THEN ", " ELSE "") \o JoinComma(Tail(items))

RetryRun(max_retries, validator) ==
    [op |-> "call_with_retry", max_retries |-> max_retries, validator |-> validator,
     attempt |-> 0, last_error |-> NoneStr, hints |-> <<>>, attempts |-> <<>>,
     status |-> IF max_retries + 1 > 0 THEN "running" ELSE "raised",
     value |-> NoneStr,
     error |-> IF max_retries + 1 > 0 THEN NoneStr ELSE "RuntimeError: Unexpected error in retry logic"]

\* the except clause at attempt run.attempt, entered with the text of the error
RetryExcept(run, text) ==
    IF run.attempt >= run.max_retries
    THEN [run EXCEPT !.last_error = text, !.status = "raised",
                     !.error = "RuntimeError: Failed after " \o ToString(run.max_retries + 1)
                               \o " attempts. Last error: " \o text]
    ELSE [run EXCEPT !.last_error = text, !.attempt = @ + 1]

\* a loop that goes on without the error of a result that failed validation
RetryStep_stale(run, done, checked) ==
    IF done.raises THEN RetryExcept(run, done.error)
    ELSE IF run.validator /\ checked.raises THEN RetryExcept(run, checked.error)
    ELSE IF run.validator /\ ~checked.valid /\ run.attempt < run.max_retries THEN [run EXCEPT !.attempt = @ + 1]
    ELSE IF run.validator /\ ~checked.valid THEN RetryExcept(run, "Validation failed: " \o JoinComma(checked.errors))
    ELSE [run EXCEPT !.status = "returned", !.value = done.result]

\* lines 35-47: the rest of one pass of the loop once call_fn(last_error) has
\* done `done`, the validator giving `checked` for its result
RetryStep(run, done, checked) ==
    IF done.raises THEN RetryExcept(run, done.error)
    ELSE IF run.validator /\ checked.raises THEN RetryExcept(run, checked.error)
    ELSE IF run.validator /\ ~checked.valid
         THEN With("Validation failed: " \o JoinComma(checked.errors), LAMBDA last_error :
                  IF run.attempt < run.max_retries
                  THEN [run EXCEPT !.last_error = last_error, !.attempt = @ + 1]
                  ELSE RetryExcept(run, last_error))
    ELSE [run EXCEPT !.status = "returned", !.value = done.result]

\* one pass of the loop: call_fn is awaited with last_error
call_with_retry(run, done, checked) ==
    RetryStep([run EXCEPT !.hints = Append(@, run.last_error), !.attempts = Append(@, done)], done, checked)

-----------------------------------------------------------------------------
(* ai_legacy/gate.py: a confidence is in hundredths. Every alternative of the
   four patterns begins and ends with a word character, so \b(a|b|...)\b is
   found where one of the alternatives stands between two word boundaries. *)

SMALL_TALK_WORDS == {"hi", "hello", "hey", "how are you", "what's up", "good morning", "good evening"}
SCHEDULING_WORDS == {"schedule", "calendar", "remind", "meeting", "appointment", "plan", "todo", "task"}
TAG_WORDS == {"tag", "label", "categorize", "organize", "sort"}
REFLECTION_WORDS == {"analyze", "reflect", "understand", "why", "how", "deep", "insight"}

\* re.search(r"\b(...)\b", lower)
SearchWords(lower, words) == \E word \in words : ContainsWord(lower, word)

Classified(intent, confidence) == [intent |-> intent, confidence |-> confidence]

\* a heuristic that looks for the tag words before the scheduling words
_classify_intent_heuristic_tag_first(user_message) ==
    With(Lower(user_message), LAMBDA lower :
        IF SearchWords(lower, SMALL_TALK_WORDS) THEN Classified("small_talk", 90)
        ELSE IF SearchWords(lower, TAG_WORDS) THEN Classified("tag", 85)
        ELSE IF SearchWords(lower, SCHEDULING_WORDS) THEN Classified("scheduling", 85)
        ELSE IF SearchWords(lower, REFLECTION_WORDS) THEN Classified("reflection", 70)
        ELSE Classified("unknown", 30))

_classify_intent_heuristic(user_message) ==
    With(Lower(user_message), LAMBDA lower :
        IF SearchWords(lower, SMALL_TALK_WORDS) THEN Classified("small_talk", 90)
        ELSE IF SearchWords(lower, SCHEDULING_WORDS) THEN Classified("scheduling", 85)
        ELSE IF SearchWords(lower, TAG_WORDS) THEN Classified("tag", 85)
        ELSE IF SearchWords(lower, REFLECTION_WORDS) THEN Classified("reflection", 70)
        ELSE Classified("unknown", 30))

\* gate_request({"userMessage": user_message}) for a str, on which the
\* heuristic does not raise
gate_request(user_message) ==
    With(_classify_intent_heuristic(user_message), LAMBDA classified :
        [route |-> IF classified.confidence > 80 /\ classified.intent \in {"small_talk", "scheduling", "tag"}
                   THEN "fast_path" ELSE "gpt_thinking",
         confidence |-> classified.confidence,
         intent |-> classified.intent])

-----------------------------------------------------------------------------
(* telemetry.py: a trace's ts is Number(ms), or NoNumber once patched to None *)

MAX_TRACES == 100

\* sorted(traces, key=ts, reverse=True): a stable sort, so the traces of the
\* largest of the stamps come first, in their order in traces
RECURSIVE SortTracesFrom(_, _)
SortTracesFrom(traces, stamps) ==
    IF stamps = {} THEN <<>>
    ELSE With(CHOOSE top \in stamps : \A other \in stamps : other <= top, LAMBDA top :
             SelectSeq(traces, LAMBDA trace : trace.ts[1] = top) \o SortTracesFrom(traces, stamps \ {top}))

SortTraces(traces) ==
    IF Len(traces) <= 1 THEN traces
    ELSE SortTracesFrom(traces, {traces[i].ts[1] : i \in DOMAIN traces})

\* sorted(...) compares the ts of the traces once there are two of them, and
\* comparing None raises TypeError
SortRaises(traces) == Len(traces) >= 2 /\ \E i \in DOMAIN traces : traces[i].ts = NoNumber

\* _save_traces: [error, store]
_save_traces(store, traces) ==
    IF SortRaises(traces) THEN [error |-> "TypeError", store |-> store]
    ELSE [error |-> NoneStr, store |-> Take(SortTraces(traces), MAX_TRACES)]

\* nanoid(): an id no earlier trace has
nanoid(seq) == "trace" \o ToString(seq + 1)

\* the task of Telemetry.record under the lock: [error, store, trace_id]
record(store, seq, params, clock) ==
    LET trace == [id |-> nanoid(seq), ts |-> Number(clock),
                  maskedUserText |-> params.maskedUserText, intentLabel |-> params.intentLabel,
                  intentConfidence |-> params.intentConfidence, decision |-> params.decision,
                  retrieval |-> params.retrieval, redactionSummary |-> params.redactionSummary,
                  latencyMs |-> clock - params.startedAt, planner |-> None, action |-> None]
        saved == _save_traces(store, <<trace>> \o store)
    IN  [error |-> saved.error, store |-> saved.store, trace_id |-> nanoid(seq)]

\* the task of Telemetry.update under the lock: [error, store]
update(store, trace_id, patch) ==
    _save_traces(store, [i \in DOMAIN store |->
                            IF store[i].id = trace_id THEN patch @@ store[i] ELSE store[i]])

-----------------------------------------------------------------------------
(* pipeline.py: handle_utterance *)

GOAL_KEYWORDS == {"goal", "goals", "milestone", "milestones", "project", "habit", "plan"}

PipelineTexts ==
    {"", "   ", "remember to call mom tomorrow", "email me at bob@example.com",
     "what about that plan", "met her on 13/45"}

\* options_input: none, an empty userConfig, a userConfig override
OptionChoices == <<<<>>, [userConfig |-> <<>>], [userConfig |-> [tone |-> "warm"]]>>

Option(options, key) == IF key \in DOMAIN options THEN options[key] ELSE <<>>

\* the text-only steps of the call, per text
Trimmed == [text \in PipelineTexts |-> Strip(text)] @@ <<>>
Cues == [text \in PipelineTexts |-> SlotCues(Trimmed[text])] @@ <<>>
Masked == [text \in PipelineTexts |-> mask(Trimmed[text])] @@ <<>>
HasGoalKeyword == [text \in PipelineTexts |-> \E keyword \in GOAL_KEYWORDS : Contains(Lower(Trimmed[text]), keyword)] @@ <<>>

ClassifierLabels == {"conversational", "entry_create", "entry_discuss", "entry_append", "command", "search_query"}

\* to_native_label, per label
NativeLabel == [label \in ClassifierLabels |-> to_title_case(ReplaceChar(label, "_", " "))] @@ <<>>

\* datetime.now(timezone.utc) when the clock reads clock milliseconds
ProcessStart == DateTime(DaysFromCivil(2026, 11, 2), 10, 30, 15, 0)
DateTimeOf(clock) == [ProcessStart EXCEPT !.microsecond = clock * 1000]

_should_load_goal_context(text, routed_intent, classification) ==
    \/ HasGoalKeyword[text]
    \/ Contains(Lower(routed_intent.label), "goal")
    \/ (classification.duplicateMatch # None /\ Contains(Lower(classification.duplicateMatch.kind), "goal"))
    \/ (classification.targetEntryType # NoneStr /\ Lower(classification.targetEntryType) = "goal")

_summarize_redactions(mapping) == [i \in DOMAIN mapping |-> [key |-> mapping[i].key, length |-> Len(mapping[i].value)]]

NativeCandidates(candidates) == [i \in DOMAIN candidates |-> [label |-> NativeLabel[candidates[i].label], confidence |-> candidates[i].confidence]]

\* a native intent whose candidate lists leave out the first candidate
NativeIntent_tail(classification) ==
    [label |-> NativeLabel[classification.label],
     confidence |-> classification.confidence,
     top3 |-> NativeCandidates(Tail(Take(classification.topCandidates, 3))),
     topK |-> NativeCandidates(Tail(classification.topCandidates)),
     modelVersion |-> "riflett-heuristic-2025-11-07"]

\* lines 210-224: the classification as the native intent
NativeIntent(classification) ==
    [label |-> NativeLabel[classification.label],
     confidence |-> classification.confidence,
     top3 |-> NativeCandidates(Take(classification.topCandidates, 3)),
     topK |-> NativeCandidates(classification.topCandidates),
     modelVersion |-> "riflett-heuristic-2025-11-07"]

\* lines 185-232 of handle_utterance: retrieval, classification, routing
\* input, slots and redaction, each step on the result of the one before:
\* [error, cache, ...]
Understand(text, clock) ==
    With(search_top_n(memory_cache, user_id, rag_results, Trimmed[text],
                      {"entry", "goal", "event", "pref"}, 5, clock), LAMBDA found :
    With(score_context_records(found.records, NoneStr), LAMBDA scored :
    With(classify_riflett_intent(Trimmed[text], scored, snapshot, recent), LAMBDA classification :
    With(NativeIntent(classification), LAMBDA native_intent :
    With(build_routed_intent(native_intent, <<>>), LAMBDA routed :
    With(fill(Cues[text], routed, DateTimeOf(clock)), LAMBDA filled :
        [error |-> filled.error,
         cache |-> found.cache,
         remote_query |-> RemoteQuery(user_id, Trimmed[text]),
         scored_context_records |-> scored,
         classification |-> classification,
         native_intent |-> native_intent,
         with_slots |-> filled.intent,
         redaction |-> Masked[text]]))))))

\* lines 236-262: the enriched payload
Payload(text, u, user_config) ==
    [userText |-> u.redaction.masked,
     intent |-> u.with_slots,
     contextSnippets |-> [i \in DOMAIN u.scored_context_records |-> u.scored_context_records[i].text],
     userConfig |-> user_config,
     classification |-> [id |-> u.classification.label,
                         label |-> NativeLabel[u.classification.label],
                         confidence |-> u.classification.confidence,
                         reasons |-> u.classification.reasons,
                         targetEntryId |-> u.classification.targetEntryId,
                         targetEntryType |-> u.classification.targetEntryType,
                         duplicateMatch |-> u.classification.duplicateMatch,
                         topCandidates |-> NativeCandidates(u.classification.topCandidates)],
     goalContext |-> IF _should_load_goal_context(text, u.with_slots, u.classification)
                     THEN <<Take(goal_context, 5)>> ELSE <<>>]

\* telemetry parameters that carry the text with its placeholders filled in
TelemetryParams_unmasked(u, started_at) ==
    [maskedUserText |-> unmask(u.redaction.masked, u.redaction.replacementMap),
     intentLabel |-> u.with_slots.label,
     intentConfidence |-> u.with_slots.confidence,
     decision |-> route_intent(u.with_slots),
     retrieval |-> [i \in DOMAIN u.scored_context_records |->
                       [id |-> u.scored_context_records[i].id, kind |-> u.scored_context_records[i].kind]],
     redactionSummary |-> _summarize_redactions(u.redaction.replacementMap),
     startedAt |-> started_at]

\* lines 266-276: the parameters of Telemetry.record
TelemetryParams(u, started_at) ==
    [maskedUserText |-> u.redaction.masked,
     intentLabel |-> u.with_slots.label,
     intentConfidence |-> u.with_slots.confidence,
     decision |-> route_intent(u.with_slots),
     retrieval |-> [i \in DOMAIN u.scored_context_records |->
                       [id |-> u.scored_context_records[i].id, kind |-> u.scored_context_records[i].kind]],
     redactionSummary |-> _summarize_redactions(u.redaction.replacementMap),
     startedAt |-> started_at]

\* lines 281-289: the returned value
Result(text, u, user_config, trace_id) ==
    [decision |-> route_intent(u.with_slots),
     routedIntent |-> u.with_slots,
     nativeIntent |-> u.native_intent,
     payload |-> Payload(text, u, _to_payload_config(user_config)),
     redaction |-> u.redaction,
     contextRecords |-> u.scored_context_records,
     traceId |-> trace_id]

Returned(value) == [kind |-> "returned", value |-> value, error |-> NoneStr]
Raised(error) == [kind |-> "raised", value |-> None, error |-> error]

\* what a turn of a task works on: its own position, locals and outcome, and
\* the shared stores
World(t) ==
    [pc |-> pc[t], frame |-> frame[t], outcome |-> outcome[t], record_raised |-> FALSE,
     user_lock |-> user_lock, storage_lock |-> storage_lock, in_memory_cache |-> in_memory_cache,
     trace_store |-> trace_store, trace_seq |-> trace_seq]

\* a handle_utterance whose telemetry failure reaches the caller
Finish_propagating(t, w, clock) ==
    With(record(w.trace_store, w.trace_seq, TelemetryParams(w.frame.understood, w.frame.started_at), clock), LAMBDA recorded :
        [w EXCEPT !.pc = "done",
                  !.storage_lock = Released(w.storage_lock),
                  !.trace_store = recorded.store,
                  !.trace_seq = @ + 1,
                  !.record_raised = recorded.error # NoneStr,
                  !.outcome = IF recorded.error # NoneStr THEN Raised(recorded.error)
                              ELSE Returned(Result(w.frame.text, w.frame.understood, w.frame.config, recorded.trace_id))])

\* lines 264-289 once the storage lock is held: record the trace, release the
\* lock, return; a failure to record leaves traceId None
Finish(t, w, clock) ==
    With(record(w.trace_store, w.trace_seq, TelemetryParams(w.frame.understood, w.frame.started_at), clock), LAMBDA recorded :
        [w EXCEPT !.pc = "done",
                  !.storage_lock = Released(w.storage_lock),
                  !.trace_store = recorded.store,
                  !.trace_seq = @ + 1,
                  !.record_raised = recorded.error # NoneStr,
                  !.outcome = Returned(Result(w.frame.text, w.frame.understood, w.frame.config,
                                              IF recorded.error # NoneStr THEN NoneStr ELSE recorded.trace_id))])

\* the call from the lock acquisition at position pos up to its next
\* suspension, return or raise; resumed tells that the task was woken at pos
RECURSIVE RunFrom(_, _, _, _, _)
RunFrom(t, pos, resumed, w, clock) ==
    LET lock == IF pos = "Telemetry.record" THEN w.storage_lock ELSE w.user_lock
        snap == SnapshotBody(w.in_memory_cache, clock)
        after_snapshot == [w EXCEPT !.user_lock = Released(Acquired(lock, t, resumed)),
                                    !.in_memory_cache = snap.cache,
                                    !.frame.config = snap.result]
    IN  IF ~resumed /\ ~CanAcquire(lock)
        THEN IF pos = "Telemetry.record"
             THEN [w EXCEPT !.pc = pos, !.storage_lock = Enqueued(lock, t)]
             ELSE [w EXCEPT !.pc = pos, !.user_lock = Enqueued(lock, t)]
        ELSE CASE pos = "UserConfig.update" ->
                    \* update holds the lock and awaits UserConfig.snapshot()
                    With([w EXCEPT !.user_lock = Acquired(lock, t, resumed)], LAMBDA held :
                        RunFrom(t, "UserConfig.update>snapshot", FALSE, held, clock))
               [] pos = "UserConfig.update>snapshot" ->
                    \* the inner snapshot releases the lock; update stores the
                    \* merged config and its own release finds the lock unlocked
                    [w EXCEPT !.pc = "done",
                              !.user_lock = Released(Acquired(lock, t, resumed)),
                              !.in_memory_cache = _merge_configs(snap.result, Option(w.frame.options, "userConfig"), clock),
                              !.outcome = Raised("RuntimeError")]
               [] pos = "UserConfig.snapshot" ->
                    IF _needs_refresh(snap.result, clock)
                    THEN With(after_snapshot, LAMBDA after : RunFrom(t, "load_user_config>snapshot", FALSE, after, clock))
                    ELSE With(after_snapshot, LAMBDA after : RunFrom(t, "Telemetry.record", FALSE, after, clock))
               [] pos = "load_user_config>snapshot" ->
                    With(after_snapshot, LAMBDA after : RunFrom(t, "Telemetry.record", FALSE, after, clock))
               [] pos = "Telemetry.record" ->
                    With([w EXCEPT !.storage_lock = Acquired(lock, t, resumed)], LAMBDA held : Finish(t, held, clock))

\* the stores and the task's own state after a turn that ended in world w
Commit(t, w) ==
    /\ pc' = [pc EXCEPT ![t] = w.pc]
    /\ frame' = [frame EXCEPT ![t] = w.frame]
    /\ outcome' = [outcome EXCEPT ![t] = w.outcome]
    /\ record_raised' = IF w.record_raised THEN record_raised \cup {t} ELSE record_raised
    /\ user_lock' = w.user_lock
    /\ storage_lock' = w.storage_lock
    /\ in_memory_cache' = w.in_memory_cache
    /\ trace_store' = w.trace_store
    /\ trace_seq' = w.trace_seq

\* the locals of a call that has understood its text
Called(t, text, options, understood) ==
    [World(t) EXCEPT !.frame = [text |-> text, options |-> options, started_at |-> now,
                                understood |-> understood, config |-> None]]

\* a handle_utterance without the check of the trimmed text
handle_utterance_unchecked(t, text, options) ==
    /\ pc[t] = "idle"
    /\ \E u \in {Understand(text, now)} :
          /\ memory_cache' = u.cache
          /\ \E called \in {Called(t, text, options, u)} :
                \E w \in {RunFrom(t, "UserConfig.snapshot", FALSE, called, now)} : Commit(t, w)
    /\ state' = WindowAfterReads.state /\ recent_messages' = WindowAfterReads.recent_messages
    /\ UNCHANGED <<advRun, receiptsIn, decaySteps, now, classifierVars, routerVars, callVars, seedVars, cache_store>>

\* handle_utterance(text, options) from the call to its first suspension,
\* return or raise
handle_utterance(t, text, options) ==
    /\ pc[t] = "idle"
    /\ IF Trimmed[text] = ""
       THEN /\ \E w \in {[Called(t, text, options, None) EXCEPT !.pc = "done", !.outcome = Raised("ValueError")]} : Commit(t, w)
            /\ UNCHANGED <<memory_cache, state, recent_messages>>
       ELSE \E u \in {Understand(text, now)} :
               /\ memory_cache' = u.cache
               /\ state' = WindowAfterReads.state /\ recent_messages' = WindowAfterReads.recent_messages
               /\ IF u.error # NoneStr
                  THEN \E w \in {[Called(t, text, options, None) EXCEPT !.pc = "done", !.outcome = Raised(u.error)]} : Commit(t, w)
                  ELSE \E called \in {Called(t, text, options, u)} :
                          \E w \in {RunFrom(t, IF DOMAIN Option(options, "userConfig") # {} THEN "UserConfig.update"
                                               ELSE "UserConfig.snapshot", FALSE, called, now)} : Commit(t, w)
    /\ UNCHANGED <<advRun, receiptsIn, decaySteps, now, classifierVars, routerVars, callVars, seedVars, cache_store>>

\* a suspended task runs again once the lock it waits for was released to it
Resume(t) ==
    /\ pc[t] \notin {"idle", "done"}
    /\ Woken(IF pc[t] = "Telemetry.record" THEN storage_lock ELSE user_lock, t)
    /\ \E world \in {World(t)} : \E w \in {RunFrom(t, pc[t], TRUE, world, now)} : Commit(t, w)
    /\ UNCHANGED <<windowVars, now, classifierVars, routerVars, callVars, seedVars, cache_store, memory_cache>>

\* one turn of the event loop given to task t
Turn(t) ==
    IF pc[t] = "idle"
    THEN \E text \in PipelineTexts, choice \in DOMAIN OptionChoices : handle_utterance(t, text, OptionChoices[choice])
    ELSE Resume(t)

\* Telemetry.update(trace_id, {"ts": None}) by a caller outside the tasks
TelemetryUpdate(trace_id) ==
    /\ CanAcquire(storage_lock)
    /\ \E i \in DOMAIN trace_store : trace_store[i].id = trace_id /\ trace_store[i].ts # NoNumber
    /\ trace_store' = update(trace_store, trace_id, [ts |-> NoNumber]).store
    /\ UNCHANGED <<windowVars, now, classifierVars, routerVars, callVars, taskVars, seedVars,
                   user_lock, storage_lock, in_memory_cache, trace_seq, memory_cache, cache_store>>

-----------------------------------------------------------------------------
(* The pipeline: two tasks of one event loop, each making one call *)

SeededRows ==
    <<MemoryRow("goal:g1", "goal", "Plan the product launch", 0, <<3, 4>>),
      MemoryRow("entry:e9", "entry", "Called mom about the trip", 0, <<0, 5>>)>>

SeededRag == <<[id |-> "9", kind |-> "entry", score |-> Number(90), snippet |-> "Called mom about the trip"]>>


\* the process before the calls: fresh; with a focused entry, a message, local
\* memory rows, goals and a cached plan; with a signed-in user and remote results
Environments ==
    <<[state |-> None, recent_messages |-> <<>>, memory_cache |-> <<>>,
       user_id |-> NoneStr, rag_results |-> <<>>, goal_context |-> <<>>, cache_store |-> <<>>],
      [state |-> WindowState("e1", "journal", 0, RatOne),
       recent_messages |-> <<RecentMessage("ok", 0, _compute_message_score("ok"), FALSE)>>,
       memory_cache |-> SeededRows,
       user_id |-> NoneStr, rag_results |-> <<>>, goal_context |-> <<"goal-1">>,
       cache_store |-> [k \in {"riflett_cache:3366"} |-> CacheEntry("plan", 5)]],
      [state |-> None, recent_messages |-> <<>>, memory_cache |-> <<>>,
       user_id |-> "u1", rag_results |-> SeededRag, goal_context |-> <<>>, cache_store |-> <<>>]>>

Init ==
    /\ now = 0
    /\ advRun = -1
    /\ receiptsIn = 0
    /\ decaySteps = 0
    /\ InitClassifierIdle
    /\ InitRouterIdle
    /\ InitTasksIdle
    /\ \E e \in DOMAIN Environments :
          /\ state = Environments[e].state
          /\ recent_messages = Environments[e].recent_messages
          /\ memory_cache = Environments[e].memory_cache
          /\ user_id = Environments[e].user_id
          /\ rag_results = Environments[e].rag_results
          /\ goal_context = Environments[e].goal_context
          /\ cache_store = Environments[e].cache_store

TaskTurn == \E t \in Tasks : Turn(t)
PatchTrace == \E i \in DOMAIN trace_store : TelemetryUpdate(trace_store[i].id)
TickPipeline == Tick(MaxClock)

Next == TaskTurn \/ PatchTrace \/ TickPipeline
Spec == Init /\ [][Next]_vars

-----------------------------------------------------------------------------
(* Calls made to one component on its own: call holds the last one *)

MaxCapacityCalls == 2

\* the number of calls made so far
CallSeq == IF call = None THEN 0 ELSE call.seq

-----------------------------------------------------------------------------
(* The memory store at its capacity: upserts and removes on a cache that
   earlier upserts have filled *)

\* the cache after n upserts of distinct ids with mixed timestamps
FilledCache(n) == [i \in 1..n |-> MemoryRow("row" \o ToString(i), "entry", "x", i % 3, <<5, 0>>)]

CapacityIds == {"new1", "new2", "row1"}
CapacityStamps == {0, 3}
CapacityPayloads ==
    {[id |-> id, kind |-> "goal", text |-> "y"] : id \in CapacityIds}
    \cup {[id |-> id, kind |-> "goal", text |-> "y", ts |-> ts] : id \in CapacityIds, ts \in CapacityStamps}
CapacityRemovals == {"new1", "row2", "absent"}

InitCapacity ==
    /\ InitWindow /\ now = 0 /\ InitClassifierIdle /\ InitRouterIdle /\ InitTasksIdle
    /\ user_id = NoneStr /\ rag_results = <<>> /\ goal_context = <<>> /\ cache_store = <<>>
    /\ memory_cache \in {FilledCache(MAX_CACHED_ROWS - 1), FilledCache(MAX_CACHED_ROWS)}

\* await Memory.upsert(options)
MemoryUpsert(options, limit) ==
    /\ CallSeq < limit
    /\ memory_cache' = Upserted(memory_cache, options, now)
    /\ call' = [seq |-> CallSeq + 1, op |-> "Memory.upsert", options |-> options,
                row |-> MemoryRow(options.id, options.kind, options.text,
                                  IF "ts" \in DOMAIN options THEN options.ts ELSE now,
                                  l2_normalize(IF "embedding" \in DOMAIN options /\ options.embedding # <<>>
                                               THEN options.embedding ELSE embed_text(options.text)))]
    /\ UNCHANGED <<windowVars, now, classifierVars, routerVars, taskVars, seedVars,
                   user_lock, storage_lock, in_memory_cache, trace_store, trace_seq, cache_store>>

\* await Memory.remove(row_id)
MemoryRemove(row_id, limit) ==
    /\ CallSeq < limit
    /\ memory_cache' = remove(memory_cache, row_id)
    /\ call' = [seq |-> CallSeq + 1, op |-> "Memory.remove", row_id |-> row_id]
    /\ UNCHANGED <<windowVars, now, classifierVars, routerVars, taskVars, seedVars,
                   user_lock, storage_lock, in_memory_cache, trace_store, trace_seq, cache_store>>

UpsertAtCapacity == \E options \in CapacityPayloads : MemoryUpsert(options, MaxCapacityCalls)
RemoveAtCapacity == \E row_id \in CapacityRemovals : MemoryRemove(row_id, MaxCapacityCalls)
TickCapacity == Tick(MaxClock)

NextCapacity == UpsertAtCapacity \/ RemoveAtCapacity \/ TickCapacity
SpecCapacity == InitCapacity /\ [][NextCapacity]_vars

-----------------------------------------------------------------------------
(* The memory store called on its own: upserts, removes, searches and briefs
   on a small cache, with and without a user and remote results *)

MaxMemoryCalls == 2

\* remote results whose second score float() rejects
BrokenRag ==
    <<[id |-> "9", kind |-> "entry", score |-> Number(90), snippet |-> "Called mom about the trip"],
      [id |-> "7", kind |-> "goal", score |-> NoNumber, snippet |-> "Plan the launch"]>>

MemoryPayloads ==
    {[id |-> "goal:g1", kind |-> "goal", text |-> "Plan the product launch"],
     [id |-> "goal:g1", kind |-> "goal", text |-> "Plan the product launch", ts |-> 1],
     [id |-> "n1", kind |-> "Entry", text |-> "met mom", ts |-> 0, embedding |-> <<0, 10>>],
     [id |-> "n1", kind |-> "Entry", text |-> "met mom", embedding |-> <<>>]}
MemoryRemovals == {"goal:g1", "absent"}
MemoryQueries == {"", " plan "}
MemoryKinds == {{"goal"}, {"entry", "goal", "event", "pref"}}
MemoryTopK == {0, 5, 25}
MemoryUids == {NoneStr, "", "u2"}

InitMemory ==
    /\ InitWindow /\ now = 0 /\ InitClassifierIdle /\ InitRouterIdle /\ InitTasksIdle
    /\ goal_context = <<>> /\ cache_store = <<>>
    /\ memory_cache \in {<<>>, SeededRows}
    /\ user_id \in {NoneStr, "u1"}
    /\ rag_results \in {<<>>, SeededRag, BrokenRag}

\* await Memory.search_top_n({"query": query, "kinds": kinds, "topK": top_k})
MemorySearch(query, kinds, top_k) ==
    /\ CallSeq < MaxMemoryCalls
    /\ \E found \in {search_top_n(memory_cache, user_id, rag_results, query, kinds, top_k, now)} :
          /\ memory_cache' = found.cache
          /\ call' = [seq |-> CallSeq + 1, op |-> "Memory.search_top_n", query |-> query, kinds |-> kinds,
                      topK |-> top_k, error |-> found.error, records |-> found.records]
    /\ UNCHANGED <<windowVars, now, classifierVars, routerVars, taskVars, seedVars,
                   user_lock, storage_lock, in_memory_cache, trace_store, trace_seq, cache_store>>

\* await Memory.get_brief(uid, intent, query, {"limit": limit})
MemoryGetBriefLimit(uid, query, limit) ==
    /\ CallSeq < MaxMemoryCalls
    /\ \E brief \in {get_brief(memory_cache, uid, user_id, rag_results, query, limit, now)} :
          /\ memory_cache' = brief.cache
          /\ call' = [seq |-> CallSeq + 1, op |-> "Memory.get_brief", uid |-> uid, query |-> query, limit |-> limit,
                      error |-> brief.error, rag |-> brief.rag, memoryRecords |-> brief.memoryRecords]
    /\ UNCHANGED <<windowVars, now, classifierVars, routerVars, taskVars, seedVars,
                   user_lock, storage_lock, in_memory_cache, trace_store, trace_seq, cache_store>>

\* await Memory.get_brief(uid, intent, query): the limit defaults to
\* REMOTE_BRIEF_LIMIT
MemoryGetBrief(uid, query) == MemoryGetBriefLimit(uid, query, REMOTE_BRIEF_LIMIT)

UpsertMemory == \E options \in MemoryPayloads : MemoryUpsert(options, MaxMemoryCalls)
RemoveMemory == \E row_id \in MemoryRemovals : MemoryRemove(row_id, MaxMemoryCalls)
SearchMemory == \E query \in MemoryQueries, kinds \in MemoryKinds, top_k \in MemoryTopK : MemorySearch(query, kinds, top_k)
BriefMemory == \E uid \in MemoryUids, query \in MemoryQueries : MemoryGetBrief(uid, query)
TickMemory == Tick(MaxClock)

NextMemory == UpsertMemory \/ RemoveMemory \/ SearchMemory \/ BriefMemory \/ TickMemory
SpecMemory == InitMemory /\ [][NextMemory]_vars

-----------------------------------------------------------------------------
(* The remote retrieval: searches and briefs of a signed-in user over remote
   results seeded in any order and in any number *)

\* remote results in rising order of score
UnsortedRag ==
    <<[id |-> "3", kind |-> "goal", score |-> Number(20), snippet |-> "Plan the launch"],
      [id |-> "4", kind |-> "entry", score |-> Number(90), snippet |-> "Called mom about the trip"],
      [id |-> "5", kind |-> "entry", score |-> Number(50), snippet |-> "met mom"]>>

\* more remote results than any brief may hold, in falling order of score
LongRagIds == <<"10", "11", "12", "13", "14", "15", "16", "17", "18", "19">>
LongRag == [i \in DOMAIN LongRagIds |-> [id |-> LongRagIds[i], kind |-> "entry", score |-> Number(100 - i), snippet |-> "met mom"]]

RemoteTopK == {0, 2, 25}
RemoteLimits == {0, 2, 3, 9, 12}

InitRemote ==
    /\ InitWindow /\ now = 0 /\ InitClassifierIdle /\ InitRouterIdle /\ InitTasksIdle
    /\ goal_context = <<>> /\ cache_store = <<>>
    /\ memory_cache \in {<<>>, SeededRows}
    /\ user_id \in {NoneStr, "u1"}
    /\ rag_results \in {<<>>, SeededRag, UnsortedRag, LongRag}

SearchRemote == \E query \in MemoryQueries, kinds \in MemoryKinds, top_k \in RemoteTopK : MemorySearch(query, kinds, top_k)
BriefRemote == \E uid \in MemoryUids, query \in MemoryQueries, limit \in RemoteLimits : MemoryGetBriefLimit(uid, query, limit)
TickRemote == Tick(MaxClock)

NextRemote == SearchRemote \/ BriefRemote \/ TickRemote
SpecRemote == InitRemote /\ [][NextRemote]_vars

-----------------------------------------------------------------------------
(* The redactor applied to one text and its result unmasked again *)

RedactLeads == <<"", "5 ", "call ", "at 12 ">>
RedactCores == <<"mom", "bob@x.io", "555-123-4567", "4111 1111 1111 1111", "9 Oak St", "+1 (415) 555 0199">>
RedactTails == <<"", " St", " or al@y.co", " Rd.", " 800-555-0100">>

\* texts with no, one and several kinds of PII, apart, adjacent and nested
RedactTexts ==
    {RedactLeads[a] \o RedactCores[b] \o RedactTails[c] :
        a \in DOMAIN RedactLeads, b \in DOMAIN RedactCores, c \in DOMAIN RedactTails}

Redacted == [text \in RedactTexts |-> mask(text)] @@ <<>>
Unmasked == [text \in RedactTexts |-> unmask(Redacted[text].masked, Redacted[text].replacementMap)] @@ <<>>

InitRedact ==
    /\ InitWindow /\ now = 0 /\ InitClassifierIdle /\ InitRouterIdle /\ InitPipelineIdle

\* Redactor.unmask(Redactor.mask(text).masked, Redactor.mask(text).replacementMap)
MaskAndUnmask(text) ==
    /\ call = None
    /\ call' = [seq |-> 1, op |-> "Redactor.mask", text |-> text, masked |-> Redacted[text].masked,
                replacementMap |-> Redacted[text].replacementMap, unmasked |-> Unmasked[text]]
    /\ UNCHANGED <<windowVars, now, classifierVars, routerVars, pipelineVars>>

NextRedact == \E text \in RedactTexts : MaskAndUnmask(text)
SpecRedact == InitRedact /\ [][NextRedact]_vars

-----------------------------------------------------------------------------
(* The slot filler applied to one schedule request at one instant *)

ScheduleText == "schedule a call next friday at 3pm"
ScheduleCues == SlotCues(ScheduleText)
ScheduleIntent == RoutedIntent("Schedule Create", "schedule_create", 90, NoneStr, NoNumber, <<>>, <<>>, <<>>, NoneStr)

\* the instants tried for now: thirty days from Monday 2026-11-02, at four
\* times of day
SlotDays == 0..29
SlotTimes == {<<0, 0, 0>>, <<10, 30, 15>>, <<15, 0, 0>>, <<23, 59, 59>>}
SlotInstant(day, time) == DateTime(DaysFromCivil(2026, 11, 2) + day, time[1], time[2], time[3], 0)

InitSlots ==
    /\ InitWindow /\ now = 0 /\ InitClassifierIdle /\ InitRouterIdle /\ InitPipelineIdle

\* fill(ScheduleText, ScheduleIntent, {"now": instant})
FillSchedule(instant) ==
    /\ call = None
    /\ \E filled \in {fill(ScheduleCues, ScheduleIntent, instant)} :
          call' = [seq |-> 1, op |-> "fill", now |-> instant, error |-> filled.error, slots |-> filled.intent.slots]
    /\ UNCHANGED <<windowVars, now, classifierVars, routerVars, pipelineVars>>

NextSlots == \E day \in SlotDays, time \in SlotTimes : FillSchedule(SlotInstant(day, time))
SpecSlots == InitSlots /\ [][NextSlots]_vars

-----------------------------------------------------------------------------
(* The slot filler applied to requests that name their day in every way the
   filler knows, under intents of each kind of label *)

\* texts without a clock time: relative days, a weekday, explicit dates of the
\* three forms, a duration, tonight, and no day at all
UntimedTexts ==
    {"lunch today", "lunch tomorrow", "lunch day after tomorrow", "lunch on friday",
     "meet on 2026-11-20", "meet on 11/20", "meet on nov 20", "call mom tomorrow for 30 minutes",
     "dinner tonight", "call mom"}
\* texts with a clock time
TimedTexts == {"call mom tomorrow at 3pm", "meet on friday at 9:30"}
FillTexts == UntimedTexts \cup TimedTexts
FillCues == [text \in FillTexts |-> SlotCues(text)] @@ <<>>

FillLabels == {"Schedule Create", "Goal Create", "Journal Entry", "Entry Create"}
FillIntent(label) == RoutedIntent(to_pascal_case(label), label, 90, NoneStr, NoNumber, <<>>, <<>>, <<>>, NoneStr)
FillIntents == [label \in FillLabels |-> FillIntent(label)] @@ <<>>

FillDays == 0..6

\* fill(text, intent, {"now": instant}); relative is what _find_relative_day
\* found in the text
Fill(text, label, instant) ==
    /\ call = None
    /\ \E filled \in {fill(FillCues[text], FillIntents[label], instant)} :
          call' = [seq |-> 1, op |-> "fill", text |-> text, label |-> label, now |-> instant,
                   relative |-> _find_relative_day(FillCues[text], instant),
                   error |-> filled.error, slots |-> filled.intent.slots]
    /\ UNCHANGED <<windowVars, now, classifierVars, routerVars, pipelineVars>>

NextFill == \E text \in FillTexts, label \in FillLabels, day \in FillDays, time \in SlotTimes : Fill(text, label, SlotInstant(day, time))
SpecFill == InitSlots /\ [][NextFill]_vars

-----------------------------------------------------------------------------
(* The edge cache on its own: set and get on a few raw keys while time passes *)

MaxCacheCalls == 3

\* "Aa" and "BB" have the same hash
CacheKeys == {"Aa", "BB", "plan:1"}
CacheValues == {"v1", "v2"}
CacheTtls == {0, 1}

\* for every raw key, the entry of the latest set on that raw key
Written == IF call = None THEN [raw \in CacheKeys |-> None] ELSE call.written
\* for every raw key, the number of the call that was the latest set on that
\* raw key, 0 when there was none
SetAt == IF call = None THEN [raw \in CacheKeys |-> 0] ELSE call.setAt

InitCache ==
    /\ InitWindow /\ now = 0 /\ InitClassifierIdle /\ InitRouterIdle /\ InitTasksIdle
    /\ user_id = NoneStr /\ rag_results = <<>> /\ goal_context = <<>>
    /\ memory_cache = <<>> /\ cache_store = <<>>

\* await EdgeCache.set(raw_key, value, ttl_ms)
CacheSet(raw_key, value, ttl_ms) ==
    /\ CallSeq < MaxCacheCalls
    /\ cache_store' = set(cache_store, raw_key, value, ttl_ms, now)
    /\ call' = [seq |-> CallSeq + 1, op |-> "EdgeCache.set", key |-> raw_key, now |-> now,
                written |-> [Written EXCEPT ![raw_key] = CacheEntry(value, now + ttl_ms)],
                setAt |-> [SetAt EXCEPT ![raw_key] = CallSeq + 1]]
    /\ UNCHANGED <<windowVars, now, classifierVars, routerVars, taskVars, seedVars,
                   user_lock, storage_lock, in_memory_cache, trace_store, trace_seq, memory_cache>>

\* await EdgeCache.get(raw_key)
CacheGet(raw_key) ==
    /\ CallSeq < MaxCacheCalls
    /\ \E got \in {get(cache_store, raw_key, now)} :
          /\ cache_store' = got.store
          /\ call' = [seq |-> CallSeq + 1, op |-> "EdgeCache.get", key |-> raw_key, now |-> now,
                      result |-> got.result, written |-> Written, setAt |-> SetAt]
    /\ UNCHANGED <<windowVars, now, classifierVars, routerVars, taskVars, seedVars,
                   user_lock, storage_lock, in_memory_cache, trace_store, trace_seq, memory_cache>>

SetCache == \E raw_key \in CacheKeys, value \in CacheValues, ttl_ms \in CacheTtls : CacheSet(raw_key, value, ttl_ms)
GetCache == \E raw_key \in CacheKeys : CacheGet(raw_key)
TickCache == Tick(MaxClock)

NextCache == SetCache \/ GetCache \/ TickCache
SpecCache == InitCache /\ [][NextCache]_vars

-----------------------------------------------------------------------------
(* Telemetry on its own: record and update on a trace log that is empty or
   near MAX_TRACES, under a wall clock that may be set back *)

MaxTelemetryCalls == 2

\* the params of tests/test_agent_pipeline.py
SeedParams ==
    [maskedUserText |-> "hi there", intentLabel |-> "Conversational", intentConfidence |-> 80,
     decision |-> [kind |-> "commit", primary |-> "Conversational"],
     retrieval |-> <<>>, redactionSummary |-> <<>>, startedAt |-> 0]

\* the log after n calls of Telemetry.record, SeedsPerInstant of them made at
\* each instant from 1 on
SeedsPerInstant == 34
SeedInstant(k) == 1 + (k - 1) \div SeedsPerInstant
FilledTraces(n) == [i \in 1..n |-> record(<<>>, n - i, SeedParams, SeedInstant(n - i + 1)).store[1]]

TracePatches == {[planner |-> [action |-> "noop"]], [ts |-> Number(0)], [ts |-> NoNumber]}

\* the ids of the traces in the order in which record made them
Recorded ==
    IF call = None THEN [i \in DOMAIN trace_store |-> trace_store[Len(trace_store) - i + 1].id]
    ELSE call.recorded

InitTelemetry ==
    /\ InitWindow /\ InitClassifierIdle /\ InitRouterIdle
    /\ pc = [t \in Tasks |-> "idle"] /\ frame = [t \in Tasks |-> None] /\ outcome = [t \in Tasks |-> None]
    /\ record_raised = {} /\ call = None /\ user_lock = FreeLock /\ storage_lock = FreeLock
    /\ in_memory_cache = None /\ memory_cache = <<>> /\ cache_store = <<>>
    /\ user_id = NoneStr /\ rag_results = <<>> /\ goal_context = <<>>
    /\ trace_seq \in {0, MAX_TRACES - 1, MAX_TRACES}
    /\ trace_store = FilledTraces(trace_seq)
    /\ now = IF trace_seq = 0 THEN 0 ELSE SeedInstant(trace_seq)

\* trace_id = await Telemetry.record(params)
TelemetryRecord(params) ==
    /\ CallSeq < MaxTelemetryCalls
    /\ CanAcquire(storage_lock)
    /\ \E recorded \in {record(trace_store, trace_seq, params, now)} :
          /\ trace_store' = recorded.store
          /\ trace_seq' = trace_seq + 1
          /\ call' = [seq |-> CallSeq + 1, op |-> "Telemetry.record", before |-> trace_store,
                      error |-> recorded.error,
                      trace_id |-> IF recorded.error = NoneStr THEN recorded.trace_id ELSE NoneStr,
                      recorded |-> IF recorded.error = NoneStr THEN Append(Recorded, recorded.trace_id)
                                   ELSE Recorded]
    /\ UNCHANGED <<windowVars, now, classifierVars, routerVars, taskVars, seedVars,
                   user_lock, storage_lock, in_memory_cache, memory_cache, cache_store>>

\* await Telemetry.update(trace_id, patch)
TelemetryPatch(trace_id, patch) ==
    /\ CallSeq < MaxTelemetryCalls
    /\ CanAcquire(storage_lock)
    /\ \E updated \in {update(trace_store, trace_id, patch)} :
          /\ trace_store' = updated.store
          /\ call' = [seq |-> CallSeq + 1, op |-> "Telemetry.update", before |-> trace_store,
                      error |-> updated.error, trace_id |-> trace_id, patch |-> patch,
                      recorded |-> Recorded]
    /\ UNCHANGED <<windowVars, now, classifierVars, routerVars, taskVars, seedVars,
                   user_lock, storage_lock, in_memory_cache, trace_seq, memory_cache, cache_store>>

\* the wall clock is set back
ClockBack(clock) ==
    /\ clock < now
    /\ now' = clock
    /\ UNCHANGED <<windowVars, classifierVars, routerVars, callVars, pipelineVars>>

RecordTrace == TelemetryRecord(SeedParams)
UpdateTrace ==
    \E trace_id \in {"absent"} \cup {trace_store[i].id : i \in DOMAIN trace_store \cap {1, Len(trace_store)}},
       patch \in TracePatches : TelemetryPatch(trace_id, patch)
TickTelemetry == Tick(MaxClock + 3)
SetBackClock == ClockBack(0)

NextTelemetry == RecordTrace \/ UpdateTrace \/ TickTelemetry \/ SetBackClock
SpecTelemetry == InitTelemetry /\ [][NextTelemetry]_vars

-----------------------------------------------------------------------------
(* Telemetry called by concurrent tasks. Every await of telemetry.py is taken
   as a point where the event loop may run another task: the entry into
   `async with _storage_lock`, the return of _load_traces, and the return of
   _save_traces. The real coroutines suspend at fewer points, so every
   interleaving of the code is one of these. *)

LogTasks == {"t1", "t2", "t3"}

\* the calls a task may make
LogCalls ==
    {[op |-> "record", params |-> SeedParams],
     [op |-> "update", trace_id |-> "trace1", patch |-> [planner |-> [action |-> "noop"]]],
     [op |-> "update", trace_id |-> "trace1", patch |-> [action |-> [kind |-> "done"]]],
     [op |-> "update", trace_id |-> "trace2", patch |-> [planner |-> [action |-> "reflect"]]]}

\* the log before the tasks start: one trace, recorded at the time 1
LogAtStart == FilledTraces(1)

InitLogTasks ==
    /\ InitWindow /\ InitClassifierIdle /\ InitRouterIdle
    /\ pc = [t \in LogTasks |-> "idle"] /\ frame = [t \in LogTasks |-> None]
    /\ outcome = [t \in LogTasks |-> None]
    /\ record_raised = {} /\ call = None /\ user_lock = FreeLock /\ storage_lock = FreeLock
    /\ in_memory_cache = None /\ memory_cache = <<>> /\ cache_store = <<>>
    /\ user_id = NoneStr /\ rag_results = <<>> /\ goal_context = <<>>
    /\ trace_seq = 1
    /\ trace_store = LogAtStart
    /\ now = 1

LogFrame == <<windowVars, classifierVars, routerVars, callVars, seedVars, record_raised,
              user_lock, in_memory_cache, memory_cache, cache_store>>

\* a task that enters the locked section without taking the lock
_without_storage_lock(t, made) ==
    /\ pc[t] = "idle"
    /\ frame' = [frame EXCEPT ![t] = made]
    /\ pc' = [pc EXCEPT ![t] = "locked"]
    /\ UNCHANGED <<storage_lock, now, outcome, trace_store, trace_seq, LogFrame>>

\* task t makes the call made and reaches `async with _storage_lock`: it
\* takes the lock when it is free and waits in its queue otherwise
_with_storage_lock(t, made) ==
    /\ pc[t] = "idle"
    /\ frame' = [frame EXCEPT ![t] = made]
    /\ IF CanAcquire(storage_lock)
       THEN /\ storage_lock' = Acquired(storage_lock, t, FALSE)
            /\ pc' = [pc EXCEPT ![t] = "locked"]
       ELSE /\ storage_lock' = Enqueued(storage_lock, t)
            /\ pc' = [pc EXCEPT ![t] = "waiting"]
    /\ UNCHANGED <<now, outcome, trace_store, trace_seq, LogFrame>>

\* the first waiter takes the lock that was released to it
LockGranted(t) ==
    /\ pc[t] = "waiting"
    /\ Woken(storage_lock, t)
    /\ storage_lock' = Acquired(storage_lock, t, TRUE)
    /\ pc' = [pc EXCEPT ![t] = "locked"]
    /\ UNCHANGED <<now, frame, outcome, trace_store, trace_seq, LogFrame>>

\* traces = await _load_traces(), and for a record the new trace, made with
\* the next id and the time now, inserted at its head; for an update the list
\* with the matching trace merged
LoadTraces(t) ==
    /\ pc[t] = "locked"
    /\ pc' = [pc EXCEPT ![t] = "loaded"]
    /\ IF frame[t].op = "record"
       THEN /\ frame' = [frame EXCEPT ![t] = [traces |-> trace_store, seq |-> trace_seq, clock |-> now] @@ @]
            /\ trace_seq' = trace_seq + 1
       ELSE /\ frame' = [frame EXCEPT ![t] = [traces |-> trace_store] @@ @]
            /\ UNCHANGED trace_seq
    /\ UNCHANGED <<now, outcome, trace_store, storage_lock, LogFrame>>

\* await _save_traces(...) on the list the task loaded, the release of the
\* lock and the return
SaveTraces(t) ==
    /\ pc[t] = "loaded"
    /\ pc' = [pc EXCEPT ![t] = "done"]
    /\ \E saved \in {IF frame[t].op = "record"
                     THEN record(frame[t].traces, frame[t].seq, frame[t].params, frame[t].clock)
                     ELSE update(frame[t].traces, frame[t].trace_id, frame[t].patch) @@ [trace_id |-> NoneStr]} :
          /\ trace_store' = IF saved.error = NoneStr THEN saved.store ELSE trace_store
          /\ outcome' = [outcome EXCEPT ![t] = IF saved.error = NoneStr THEN Returned(saved.trace_id)
                                              ELSE Raised(saved.error)]
    /\ storage_lock' = Released(storage_lock)
    /\ UNCHANGED <<now, frame, trace_seq, LogFrame>>

TickLogTasks ==
    /\ now < MaxClock
    /\ now' = now + 1
    /\ UNCHANGED <<pc, frame, outcome, trace_store, trace_seq, storage_lock, LogFrame>>

CallTelemetry == \E t \in LogTasks, made \in LogCalls : _with_storage_lock(t, made)
GrantLock == \E t \in LogTasks : LockGranted(t)
Load == \E t \in LogTasks : LoadTraces(t)
Save == \E t \in LogTasks : SaveTraces(t)

NextLogTasks == CallTelemetry \/ GrantLock \/ Load \/ Save \/ TickLogTasks
SpecLogTasks == InitLogTasks /\ [][NextLogTasks]_vars

-----------------------------------------------------------------------------
(* Readers beside the two places that shed state: task t1 upserts into a full
   memory store, task t2 searches it locally, and the ring, at its cap, takes
   receipts while snapshot() and recent() are read. A task gives way to the
   other only at an await; record_user_message, snapshot and recent have
   none. *)

MaxShedCalls == 3

\* an upsert that awaits embed_text, and one that brings its embedding
ShedPayloads ==
    {[id |-> "new1", kind |-> "goal", text |-> "y"],
     [id |-> "new2", kind |-> "goal", text |-> "y", ts |-> 3, embedding |-> <<0, 5>>]}

\* the ring after n calls of record_user_message("ok") at the time 0
FilledRing(n) == [i \in 1..n |-> RecentMessage("ok", 0, MessageScore["ok"], FALSE)]

InitShed ==
    /\ state = None /\ advRun = -1 /\ receiptsIn = 0 /\ decaySteps = 0
    /\ recent_messages \in {FilledRing(MAX_SEMANTIC_TURNS - 1), FilledRing(MAX_SEMANTIC_TURNS)}
    /\ now = 0 /\ InitClassifierIdle /\ InitRouterIdle /\ InitTasksIdle
    /\ user_id = NoneStr /\ rag_results = <<>> /\ goal_context = <<>> /\ cache_store = <<>>
    /\ memory_cache = FilledCache(MAX_CACHED_ROWS)

ShedFrame == <<windowVars, now, classifierVars, routerVars, seedVars, outcome, record_raised,
               user_lock, storage_lock, in_memory_cache, trace_store, trace_seq, cache_store>>

\* lines 232-240 of Memory.upsert: the row is stored and the store trimmed
StoreRow(options, clock) ==
    /\ memory_cache' = Upserted(memory_cache, options, clock)
    /\ call' = [seq |-> CallSeq + 1, op |-> "Memory.upsert", options |-> options]

\* await Memory.upsert(options) up to its await of embed_text, or to its end
\* when the options bring an embedding
BeginUpsert(t, options) ==
    /\ pc[t] = "idle"
    /\ CallSeq < MaxShedCalls
    /\ IF "embedding" \in DOMAIN options /\ options.embedding # <<>>
       THEN StoreRow(options, now) /\ UNCHANGED <<pc, frame>>
       ELSE /\ pc' = [pc EXCEPT ![t] = "Memory.upsert>embed_text"]
            /\ frame' = [frame EXCEPT ![t] = [options |-> options, clock |-> now]]
            /\ UNCHANGED <<memory_cache, call>>
    /\ UNCHANGED ShedFrame

\* Memory.upsert from the return of embed_text to its end
FinishUpsert(t) ==
    /\ pc[t] = "Memory.upsert>embed_text"
    /\ StoreRow(frame[t].options, frame[t].clock)
    /\ pc' = [pc EXCEPT ![t] = "idle"]
    /\ frame' = [frame EXCEPT ![t] = None]
    /\ UNCHANGED ShedFrame

\* await Memory.search_top_n({"query": query, "kinds": [], "topK": top_k})
\* without a user, up to its await of embed_text(query)
BeginSearch(t, query, top_k) ==
    /\ pc[t] = "idle"
    /\ CallSeq < MaxShedCalls
    /\ pc' = [pc EXCEPT ![t] = "Memory.search_top_n>embed_text"]
    /\ frame' = [frame EXCEPT ![t] = [query |-> Strip(query), top_k |-> Max(1, Min(top_k, 20))]]
    /\ UNCHANGED <<memory_cache, call, ShedFrame>>

\* lines 175-176: the rows are read and scored
FinishSearch(t) ==
    /\ pc[t] = "Memory.search_top_n>embed_text"
    /\ call' = [seq |-> CallSeq + 1, op |-> "Memory.search_top_n", rows |-> memory_cache,
                records |-> LocalSearch(memory_cache, frame[t].query, {}, frame[t].top_k)]
    /\ pc' = [pc EXCEPT ![t] = "idle"]
    /\ frame' = [frame EXCEPT ![t] = None]
    /\ UNCHANGED <<memory_cache, ShedFrame>>

\* snapshot() and recent(), as the classifier reads them
ReadWindow ==
    /\ CallSeq < MaxShedCalls
    /\ call' = [seq |-> CallSeq + 1, op |-> "recent", snapshot |-> snapshot, recent |-> recent]
    /\ UNCHANGED <<memory_cache, pc, frame, ShedFrame>>

UpsertShed == \E options \in ShedPayloads : BeginUpsert("t1", options)
StoreShed == FinishUpsert("t1")
SearchShed == BeginSearch("t2", " plan ", 5)
ScoreShed == FinishSearch("t2")
RecordShedReceipt == receiptsIn < MaxRingReceipts /\ record_user_message("confirmed")
TickShed == Tick(MaxClockRing)

NextShed == UpsertShed \/ StoreShed \/ SearchShed \/ ScoreShed \/ ReadWindow \/ RecordShedReceipt \/ TickShed
SpecShed == InitShed /\ [][NextShed]_vars

-----------------------------------------------------------------------------
(* The planner on its own, on PlannerPayloads; and the planner beside another
   writer of the EdgeCache *)

MaxPlannerCalls == 3
MaxPlannerMinutes == 6

\* values that are not planner responses: an action the planner does not
\* have, and a dict without payload
MalformedValues ==
    {[action |-> "bogus", ask |-> NoneStr, payload |-> [slots |-> <<>>, context |-> <<>>]],
     [action |-> "noop", ask |-> NoneStr]}

\* for every payload, the latest plan_action on it that wrote to the cache
Wrote == IF call = None THEN [payload \in PlannerPayloads |-> None] ELSE call.wrote

InitPlanner ==
    /\ InitWindow /\ now = 0 /\ InitClassifierIdle /\ InitRouterIdle /\ InitTasksIdle
    /\ user_id = NoneStr /\ rag_results = <<>> /\ goal_context = <<>>
    /\ memory_cache = <<>> /\ cache_store = <<>>

PlannerFrame == <<windowVars, classifierVars, routerVars, taskVars, seedVars,
                  user_lock, storage_lock, in_memory_cache, trace_store, trace_seq, memory_cache>>

\* await plan_action({"payload": payload})
PlanAction(payload) ==
    /\ CallSeq < MaxPlannerCalls
    /\ \E planned \in {plan_action(cache_store, payload, now)} :
          /\ cache_store' = planned.store
          /\ call' = [seq |-> CallSeq + 1, op |-> "plan_action", payload |-> payload, now |-> now,
                      before |-> cache_store, first |-> Wrote[payload],
                      error |-> planned.error, response |-> planned.response, cached |-> planned.cached,
                      wrote |-> IF planned.cached \/ _planner_ttl(planned.response.action) = 0 THEN Wrote
                                ELSE [Wrote EXCEPT ![payload] =
                                         [response |-> planned.response,
                                          expires_at |-> now + _planner_ttl(planned.response.action)]]]
    /\ UNCHANGED <<now, PlannerFrame>>

\* await EdgeCache.set(raw_key, value, ttl_ms) by another user of the cache,
\* on a raw key with the store key given
PlannerCacheSet(key, value, ttl_ms) ==
    /\ CallSeq < MaxPlannerCalls
    /\ cache_store' = SetEntry(cache_store, key, value, ttl_ms, now)
    /\ call' = [seq |-> CallSeq + 1, op |-> "EdgeCache.set", wrote |-> Wrote]
    /\ UNCHANGED <<now, PlannerFrame>>

PlannerMinute ==
    /\ now < MaxPlannerMinutes * MINUTE_MS
    /\ now' = now + MINUTE_MS
    /\ UNCHANGED <<cache_store, call, PlannerFrame>>

Plan == \E payload \in PlannerPayloads : PlanAction(payload)
SetPlannerEntry == \E payload \in PlannerPayloads, value \in MalformedValues : PlannerCacheSet(StoreKey(payload), value, MINUTE_MS)

NextPlanner == Plan \/ PlannerMinute
SpecPlanner == InitPlanner /\ [][NextPlanner]_vars

NextPlannerCache == Plan \/ SetPlannerEntry \/ PlannerMinute
SpecPlannerCache == InitPlanner /\ [][NextPlannerCache]_vars

-----------------------------------------------------------------------------
(* actions.py. A value of a payload carries its Python type: Str(s) is a
   str, Num(n) an int, List(items) a list, Dict(d) a dict; the planner's own
   two keys, slots and context, are kept as the planner writes them. *)

Str(s) == [str |-> s]
Num(n) == [num |-> n]
List(items) == [list |-> items]
Dict(d) == [dict |-> d]

\* isinstance(value, str)
IsStr(value) == "str" \in DOMAIN value

\* payload.get(key)
PayloadGet(payload, key) == IF key \in DOMAIN payload THEN payload[key] ELSE None

_get_start_time(payload) ==
    IF IsStr(PayloadGet(payload, "start")) THEN payload["start"].str
    ELSE IF IsStr(PayloadGet(payload, "start_at")) THEN payload["start_at"].str
    ELSE NoneStr

_get_end_time(payload) ==
    IF IsStr(PayloadGet(payload, "end")) THEN payload["end"].str
    ELSE IF IsStr(PayloadGet(payload, "end_at")) THEN payload["end_at"].str
    ELSE NoneStr

\* the two digits of value that start at pos, -1 when they are not digits
TwoDigits(value, pos) == IF AllDigits(value, pos, pos + 1) THEN ToInt(SubSeq(value, pos, pos + 1)) ELSE -1

InvalidIso == [ok |-> FALSE]

\* datetime.fromisoformat on the forms YYYY-MM-DD, YYYY-MM-DDTHH:MM:SS and
\* YYYY-MM-DDTHH:MM:SS+HH:MM (or -HH:MM); any other string is taken as one it
\* rejects. minutes counts from the epoch, in UTC for an aware datetime.
fromisoformat(value) ==
    IF Len(value) \notin {10, 19, 25} THEN InvalidIso
    ELSE IF ~(AllDigits(value, 1, 4) /\ CharAt(value, 5) = "-" /\ CharAt(value, 8) = "-") THEN InvalidIso
    ELSE With(<<ToInt(SubSeq(value, 1, 4)), TwoDigits(value, 6), TwoDigits(value, 9)>>, LAMBDA date :
        IF ~ValidDate(date[1], date[2], date[3]) THEN InvalidIso
        ELSE IF Len(value) = 10
             THEN [ok |-> TRUE, aware |-> FALSE, minutes |-> DaysFromCivil(date[1], date[2], date[3]) * 1440, second |-> 0]
        ELSE With(<<TwoDigits(value, 12), TwoDigits(value, 15), TwoDigits(value, 18)>>, LAMBDA time :
            IF ~(/\ CharAt(value, 11) = "T" /\ CharAt(value, 14) = ":" /\ CharAt(value, 17) = ":"
                 /\ time[1] \in 0..23 /\ time[2] \in 0..59 /\ time[3] \in 0..59) THEN InvalidIso
            ELSE IF Len(value) = 19
                 THEN [ok |-> TRUE, aware |-> FALSE,
                       minutes |-> DaysFromCivil(date[1], date[2], date[3]) * 1440 + time[1] * 60 + time[2],
                       second |-> time[3]]
            ELSE With(<<TwoDigits(value, 21), TwoDigits(value, 24)>>, LAMBDA offset :
                IF ~(/\ CharAt(value, 20) \in {"+", "-"} /\ CharAt(value, 23) = ":"
                     /\ offset[1] \in 0..23 /\ offset[2] \in 0..59) THEN InvalidIso
                ELSE [ok |-> TRUE, aware |-> TRUE,
                      minutes |-> DaysFromCivil(date[1], date[2], date[3]) * 1440 + time[1] * 60 + time[2]
                                  - (IF CharAt(value, 20) = "+" THEN 1 ELSE -1) * (offset[1] * 60 + offset[2]),
                      second |-> time[3]])))

\* value.replace("Z", "+00:00")
ReplaceZ(value) == ReplaceFrom(value, 1, "Z", "+00:00")

\* start_date >= end_date, on two datetimes that are both aware or both naive
NotBefore(start_date, end_date) ==
    \/ start_date.minutes > end_date.minutes
    \/ (start_date.minutes = end_date.minutes /\ start_date.second >= end_date.second)

\* datetime.now(timezone.utc).isoformat() when the clock reads clock milliseconds
NowIso(clock) ==
    With(ProcessStart.hour * 3600 + ProcessStart.minute * 60 + ProcessStart.second + clock \div 1000, LAMBDA seconds :
        With(CivilFromDays(ProcessStart.day), LAMBDA civil :
            Pad(ToString(civil.year), 4) \o "-" \o Pad(ToString(civil.month), 2) \o "-"
            \o Pad(ToString(civil.day), 2) \o "T" \o Pad(ToString(seconds \div 3600), 2) \o ":"
            \o Pad(ToString((seconds \div 60) % 60), 2) \o ":" \o Pad(ToString(seconds % 60), 2)
            \o (IF clock % 1000 = 0 THEN "" ELSE "." \o Pad(ToString((clock % 1000) * 1000), 6))
            \o "+00:00"))

\* the stored row of a block; block.get("id") and block.get("user_id") are
\* absent from the block that handle_tool_call builds
_persist_schedule_block(block, clock) ==
    [id |-> "sched_" \o NowIso(clock), user_id |-> "stub-user",
     start_at |-> block.start, end_at |-> block.end, intent |-> block.intent,
     summary |-> block.summary, goal_id |-> block.goal_id, location |-> block.location,
     attendees |-> block.attendees, receipts |-> block.receipts, metadata |-> block.metadata,
     created_at |-> NowIso(clock), updated_at |-> NowIso(clock)]

\* payload.get(key) if isinstance(payload.get(key), str) else None
StrOrNone(payload, key) == IF IsStr(PayloadGet(payload, key)) THEN payload[key].str ELSE NoneStr

\* payload.get(key) if isinstance(payload.get(key), dict) else {}
DictOrEmpty(payload, key) == IF "dict" \in DOMAIN PayloadGet(payload, key) THEN payload[key].dict ELSE <<>>

\* payload.get("attendees", []) can be iterated: a list, or a str, letter by letter
AttendeesIterable(payload) ==
    "attendees" \notin DOMAIN payload \/ "list" \in DOMAIN payload["attendees"] \/ IsStr(payload["attendees"])

Attendees(payload) ==
    IF "attendees" \notin DOMAIN payload THEN <<>>
    ELSE IF IsStr(payload["attendees"])
         THEN [i \in 1..Len(payload["attendees"].str) |-> CharAt(payload["attendees"].str, i)]
    ELSE With(SelectSeq(payload["attendees"].list, IsStr), LAMBDA strings : [i \in DOMAIN strings |-> strings[i].str])

\* lines 73-83
BlockInput(payload, start_raw, end_raw) ==
    [start |-> start_raw, end |-> end_raw,
     intent |-> IF IsStr(PayloadGet(payload, "intent")) /\ Strip(payload["intent"].str) # ""
                THEN payload["intent"].str ELSE "focus.block",
     goal_id |-> StrOrNone(payload, "goal_id"), summary |-> StrOrNone(payload, "summary"),
     location |-> StrOrNone(payload, "location"), attendees |-> Attendees(payload),
     receipts |-> DictOrEmpty(payload, "receipts"), metadata |-> DictOrEmpty(payload, "metadata")]

\* what a call of handle_tool_call gave: the exception raised, the value
\* returned, and the row that _persist_schedule_block made
Handled(error, result, persisted) == [error |-> error, result |-> result, persisted |-> persisted]

ToolExecutionResult(action, payload) == [action |-> action, payload |-> payload]

\* a schedule.create branch that never compares the start with the end
ScheduleCreate_unordered(plan, clock) ==
    With(<<_get_start_time(plan.payload), _get_end_time(plan.payload)>>, LAMBDA raw :
        IF raw[1] \in {NoneStr, ""} \/ raw[2] \in {NoneStr, ""}
        THEN Handled("ValueError: Planner schedule payload missing start/end", None, None)
        ELSE With(<<fromisoformat(ReplaceZ(raw[1])), fromisoformat(ReplaceZ(raw[2]))>>, LAMBDA dates :
            IF ~dates[1].ok \/ ~dates[2].ok THEN Handled("ValueError: Invalid isoformat string", None, None)
            ELSE IF ~AttendeesIterable(plan.payload)
                 THEN Handled("TypeError: object is not iterable", None, None)
            ELSE With(_persist_schedule_block(BlockInput(plan.payload, raw[1], raw[2]), clock), LAMBDA persisted :
                     Handled(NoneStr,
                             ToolExecutionResult(plan.action, [schedule |-> persisted] @@ plan.payload),
                             persisted))))

\* lines 56-86: the schedule.create branch
ScheduleCreate(plan, clock) ==
    With(<<_get_start_time(plan.payload), _get_end_time(plan.payload)>>, LAMBDA raw :
        IF raw[1] \in {NoneStr, ""} \/ raw[2] \in {NoneStr, ""}
        THEN Handled("ValueError: Planner schedule payload missing start/end", None, None)
        ELSE With(<<fromisoformat(ReplaceZ(raw[1])), fromisoformat(ReplaceZ(raw[2]))>>, LAMBDA dates :
            IF ~dates[1].ok \/ ~dates[2].ok THEN Handled("ValueError: Invalid isoformat string", None, None)
            ELSE IF dates[1].aware # dates[2].aware
                 THEN Handled("TypeError: can't compare offset-naive and offset-aware datetimes", None, None)
            ELSE IF NotBefore(dates[1], dates[2])
                 THEN Handled("ValueError: Schedule start time must be before end time", None, None)
            ELSE IF ~AttendeesIterable(plan.payload)
                 THEN Handled("TypeError: object is not iterable", None, None)
            ELSE With(_persist_schedule_block(BlockInput(plan.payload, raw[1], raw[2]), clock), LAMBDA persisted :
                     Handled(NoneStr,
                             ToolExecutionResult(plan.action, [schedule |-> persisted] @@ plan.payload),
                             persisted))))

\* await handle_tool_call(plan) when the clock reads clock milliseconds
handle_tool_call(plan, clock) ==
    IF plan = None THEN Handled(NoneStr, None, None)
    ELSE IF plan.action = "schedule.create" THEN ScheduleCreate(plan, clock)
    ELSE IF plan.action \in {"journal.create", "goal.create", "settings.update", "reflect", "noop"}
         THEN Handled(NoneStr, ToolExecutionResult(plan.action, plan.payload), None)
    ELSE Handled(NoneStr, None, None)

-----------------------------------------------------------------------------
(* The tool handler after the planner: handle_tool_call on the response that
   plan_action has just returned, and on plans written by hand *)

ThreePm == "2026-11-02T15:00:00Z"
FourPm == "2026-11-02T16:00:00Z"

\* payloads of schedule.create plans: times under each pair of keys, in and out
\* of order, equal, missing, nested under slots as the planner writes them,
\* not strings, not ISO, with offsets, naive, dates only, and further keys
ToolPayloads ==
    {[start |-> Str(ThreePm), end |-> Str(FourPm)],
     [start |-> Str(ThreePm), end |-> Str(ThreePm)],
     [start |-> Str(FourPm), end |-> Str(ThreePm)],
     [start_at |-> Str(ThreePm), end_at |-> Str(FourPm)],
     [start |-> Num(5), start_at |-> Str(ThreePm), end |-> Str(FourPm)],
     [start |-> Str(FourPm), start_at |-> Str(ThreePm), end |-> Str(FourPm)],
     [slots |-> [start |-> ThreePm, end |-> FourPm], context |-> <<>>],
     <<>>,
     [start |-> Str(ThreePm)],
     [start |-> Num(15), end |-> Num(16)],
     [start |-> Str(""), start_at |-> Str(ThreePm), end |-> Str(FourPm)],
     [start |-> Str("soon"), end |-> Str(FourPm)],
     [start |-> Str("2026-11-02T17:00:00+02:00"), end |-> Str("2026-11-02T15:30:00Z")],
     [start |-> Str("2026-11-02T15:30:00Z"), end |-> Str("2026-11-02T17:00:00+02:00")],
     [start |-> Str("2026-11-02T15:00:00"), end |-> Str(FourPm)],
     [start |-> Str("2026-11-02T15:00:00"), end |-> Str("2026-11-02T15:00:01")],
     [start |-> Str("2026-11-02"), end |-> Str("2026-11-03")],
     [start |-> Str("2026-02-30"), end |-> Str("2026-11-03")],
     [start |-> Str(ThreePm), end |-> Str(FourPm), attendees |-> Num(5)],
     [start |-> Str(ThreePm), end |-> Str(FourPm), attendees |-> List(<<Str("ann"), Num(1)>>),
      intent |-> Str("  "), summary |-> Str("call"), receipts |-> Dict([source |-> "chat"]), metadata |-> Num(0)]}

ToolPlans ==
    {PlannerResponse("schedule.create", NoneStr, payload) : payload \in ToolPayloads}
    \cup {PlannerResponse(action, NoneStr, [slots |-> <<>>, context |-> <<>>]) : action \in PLANNER_ACTIONS \cup {"bogus"}}
    \cup {None}

\* await handle_tool_call(plan); planned tells that plan is the response of
\* the plan_action call just before
ToolCall(plan, planned) ==
    /\ CallSeq < MaxPlannerCalls
    /\ \E handled \in {handle_tool_call(plan, now)} :
          call' = [seq |-> CallSeq + 1, op |-> "handle_tool_call", plan |-> plan, planned |-> planned,
                   now |-> now, error |-> handled.error, result |-> handled.result,
                   persisted |-> handled.persisted, wrote |-> Wrote]
    /\ UNCHANGED <<now, cache_store, PlannerFrame>>

ToolOnResponse ==
    /\ IF call = None THEN FALSE ELSE call.op = "plan_action" /\ call.error = NoneStr
    /\ ToolCall(call.response, TRUE)

\* the handler keeps no state: the plans written by hand are tried on their own
ToolOnPlan == call = None /\ \E plan \in ToolPlans : ToolCall(plan, FALSE)

NextTool == Plan \/ ToolOnResponse \/ ToolOnPlan \/ PlannerMinute
SpecTool == InitPlanner /\ [][NextTool]_vars

-----------------------------------------------------------------------------
(* call_with_retry on its own: every max_retries from -1 up, with and without
   a validator, call_fn doing at each attempt any of the things below *)

MaxRetries == 2

\* what call_fn can do: raise, with or without a message, or return one of
\* three results
CallOutcomes ==
    {[raises |-> TRUE, error |-> "timeout"],
     [raises |-> TRUE, error |-> ""],
     [raises |-> FALSE, result |-> "good"],
     [raises |-> FALSE, result |-> "bad"],
     [raises |-> FALSE, result |-> "odd"]}

\* the validator: "good" is valid, "bad" has two errors, on "odd" it raises
Validate(result) ==
    IF result = "good" THEN [raises |-> FALSE, valid |-> TRUE, errors |-> <<>>]
    ELSE IF result = "bad" THEN [raises |-> FALSE, valid |-> FALSE, errors |-> <<"intent is required", "emotion is required">>]
    ELSE [raises |-> TRUE, error |-> "unhashable type"]

InitRetry == InitPlanner

RetryFrame == <<now, cache_store, PlannerFrame>>

\* call_with_retry(call_fn, max_retries, validator) up to its first await
BeginRetry(max_retries, validator) ==
    /\ IF call = None THEN TRUE ELSE call.status # "running"
    /\ call' = RetryRun(max_retries, validator)
    /\ UNCHANGED RetryFrame

\* call_fn does `done` and the loop goes on to its next await, return or raise
Attempt(done) ==
    /\ IF call = None THEN FALSE ELSE call.status = "running"
    /\ call' = call_with_retry(call, done, IF done.raises THEN None ELSE Validate(done.result))
    /\ UNCHANGED RetryFrame

StartRetry == \E max_retries \in -1..MaxRetries, validator \in BOOLEAN : BeginRetry(max_retries, validator)
TryCall == \E done \in CallOutcomes : Attempt(done)

NextRetry == StartRetry \/ TryCall
SpecRetry == InitRetry /\ [][NextRetry]_vars

-----------------------------------------------------------------------------
(* The legacy gate on its own, on messages of two fragments *)

MaxGateCalls == 2

\* keywords of the four groups, words that only contain one, and other words
GateFragments ==
    {"Hello", "what's up", "schedule", "tag", "why", "history", "meetings", "sort", "notes", "analyze"}

GateMessages == {first \o " " \o second : first \in GateFragments, second \in GateFragments}

\* await gate_request({"userMessage": user_message})
GateRequest(user_message) ==
    /\ CallSeq < MaxGateCalls
    /\ call' = [seq |-> CallSeq + 1, op |-> "gate_request", message |-> user_message,
                result |-> gate_request(user_message)]
    /\ UNCHANGED RetryFrame

Gate == \E user_message \in GateMessages : GateRequest(user_message)

NextGate == Gate
SpecGate == InitPlanner /\ [][NextGate]_vars

-----------------------------------------------------------------------------
(* build_routed_intent applied to one native intent: candidate lists of up to
   three candidates whose labels repeat, differ in case only, or name no
   definition, with confidences inside and outside [0, 1] *)

CandidateConfidences == {-50, 30, 90, 150}
RawCandidates == {[label |-> label, confidence |-> confidence] : label \in CandidateLabels, confidence \in CandidateConfidences}
RawCandidateLists ==
    {<<>>} \cup {<<a>> : a \in RawCandidates} \cup {<<a, b>> : a, b \in RawCandidates}
    \cup {<<a, b, c>> : a, b, c \in RawCandidates}
RawTop3 == {<<>>, <<[label |-> "Command", confidence |-> 50], [label |-> "command ", confidence |-> 50]>>}
NativeConfidences == {-20, 50, 140}

\* build_routed_intent({"label": "Entry Create", "confidence": confidence,
\* "topK": top_k, "top3": top3})
BuildRoutedIntent(top_k, top3, confidence) ==
    /\ call = None
    /\ call' = [seq |-> 1, op |-> "build_routed_intent", topK |-> top_k, top3 |-> top3, confidence |-> confidence,
                result |-> build_routed_intent([label |-> "Entry Create", confidence |-> confidence, topK |-> top_k,
                                                top3 |-> top3, modelVersion |-> NoneStr], <<>>)]
    /\ UNCHANGED RetryFrame

Normalize == \E top_k \in RawCandidateLists, top3 \in RawTop3, confidence \in NativeConfidences : BuildRoutedIntent(top_k, top3, confidence)

NextNormalize == Normalize
SpecNormalize == InitPlanner /\ [][NextNormalize]_vars

-----------------------------------------------------------------------------
(* Claims about the context window *)

ReceiptsInRing == Cardinality({i \in DOMAIN recent_messages : recent_messages[i].isReceipt})

\* C8: after register_entry("e1","journal") the snapshot is active with
\* decayScore 1.0; after 1, 2 or 3 consecutive advance_turn(False) calls the
\* focus still exists, and after the 4th (and any further one) snapshot() is null.
C8_FourAdvancesClearFocus ==
    /\ advRun = 0 => (snapshot # None /\ snapshot.isActive /\ snapshot.decayScore = RatOne
                        /\ snapshot.entryId = "e1" /\ snapshot.entryType = "journal")
    /\ advRun \in 1..3 => snapshot # None
    /\ advRun >= 4 => snapshot = None

C8_Witness == advRun = 4 /\ state = None

\* C9: a focus exists only while its decayScore is within [0.2, 1]: a non-null
\* snapshot has decayScore >= 0.2, decayScore <= 1 and isActive true.
C9_FocusOnlyWhileActive ==
    snapshot # None =>
        /\ ~RatLess(snapshot.decayScore, MIN_ACTIVE_SCORE)
        /\ ~RatLess(RatOne, snapshot.decayScore)
        /\ snapshot.isActive

C9_Witness ==
    /\ state # None
    /\ RatLess(state.decayScore, RatOne)
    /\ Len(recent_messages) > 0
    /\ recent_messages[Len(recent_messages)].isReceipt
    /\ decaySteps >= 3

\* C10: every message recorded as a receipt since the last clear() is still in
\* the ring: the ring holds as many receipts as were recorded.
C10_ReceiptsPreserved == ReceiptsInRing = receiptsIn

-----------------------------------------------------------------------------
(* Claims about the classifier *)

FirstNonBlank(text) ==
    LET keep == {i \in 1..Len(text) : ~IsSpace(CharAt(text, i))}
    IN  IF keep = {} THEN "" ELSE CharAt(text, CHOOSE i \in keep : \A j \in keep : i <= j)

\* C6: a text whose first non-blank character is "/" classifies as command with
\* confidence 0.99, and a text that is empty after trimming as conversational
\* with confidence 0.6, whatever the records, the window and the ring are.
C6_CommandAndEmptyIgnoreContext ==
    cl_result # None =>
        /\ FirstNonBlank(cl_text) = "/" => (cl_result.label = "command" /\ cl_result.confidence = 99)
        /\ FirstNonBlank(cl_text) = "" => (cl_result.label = "conversational" /\ cl_result.confidence = 60)

C6_Witness ==
    /\ cl_result # None
    /\ cl_text = "  /find it"
    /\ cl_result.label = "command"
    /\ state # None
    /\ DuplicateMeta(cl_records) # None
    /\ Len(recent_messages) = 2

\* the guard of rule r of the cascade, as the specification words it
RuleGuard(r) ==
    LET sig == Signals[cl_text]
        duplicate == \E i \in DOMAIN cl_records : cl_records[i].score >= 85
        active == snapshot # None /\ snapshot.isActive
    IN  CASE r = 1 -> Strip(cl_text) = ""
          [] r = 2 -> FirstNonBlank(cl_text) = "/"
          [] r = 3 -> sig.is_search
          [] r = 4 -> duplicate /\ sig.has_additive
          [] r = 5 -> active /\ sig.has_pronoun_anchor
          [] r = 6 -> ~sig.is_question /\ (sig.has_save \/ (sig.has_temporal /\ sig.has_action)
                                           \/ sig.word_count > 25)
          [] r = 7 -> sig.has_additive /\ duplicate
          [] r = 8 -> active /\ ~sig.is_question
          [] r = 9 -> RecentMatch(DuplicateMeta(cl_records), recent)
          [] r = 10 -> TRUE

\* the (label, confidence) rule r prescribes
RuleOutcome(r) ==
    LET sig == Signals[cl_text]
    IN  CASE r = 1 -> <<"conversational", 60>>
          [] r = 2 -> <<"command", 99>>
          [] r = 3 -> <<"search_query", IF sig.length > 24 THEN 94 ELSE 90>>
          [] r = 4 -> <<"entry_append", 91>>
          [] r = 5 -> <<"entry_discuss", 96>>
          [] r = 6 -> <<"entry_create",
                        Min(86 + (IF sig.has_save THEN 8 ELSE 0) + (IF sig.has_temporal THEN 3 ELSE 0)
                               + (IF sig.word_count > 60 THEN 3 ELSE 0), 97)>>
          [] r = 7 -> <<"entry_append", 88>>
          [] r = 8 -> <<"entry_discuss", 78>>
          [] r = 9 -> <<"entry_append", 80>>
          [] r = 10 -> <<"conversational", IF sig.is_question THEN 90 ELSE 82>>

FirstRule == CHOOSE r \in 1..10 : RuleGuard(r) /\ \A q \in 1..(r - 1) : ~RuleGuard(q)

\* C7: the returned (label, confidence) is the one prescribed by the
\* lowest-numbered rule, in the order 1..10, whose guard holds.
C7_FirstMatchWins ==
    cl_result # None => <<cl_result.label, cl_result.confidence>> = RuleOutcome(FirstRule)

C7_Witness ==
    /\ cl_result # None
    /\ FirstRule = 5
    /\ RuleGuard(6) /\ RuleGuard(8)
    /\ cl_result.label = "entry_discuss" /\ cl_result.confidence = 96

-----------------------------------------------------------------------------
(* Claims about the router *)

\* C5: route_intent commits exactly when confidence >= 0.75 (primary is the
\* label, maybeSecondary is set only when secondConfidence >= 0.6), clarifies
\* with a question exactly when 0.45 <= confidence < 0.75, and falls back
\* exactly when confidence < 0.45; 0.80 commits, 0.50 clarifies, 0.10 falls back.
C5_RoutePartition ==
    rt_decision # None =>
        /\ rt_decision.kind \in {"commit", "clarify", "fallback"}
        /\ rt_decision.kind = "commit" <=> rt_intent.confidence >= 75
        /\ rt_decision.kind = "clarify" <=> (rt_intent.confidence >= 45 /\ rt_intent.confidence < 75)
        /\ rt_decision.kind = "fallback" <=> rt_intent.confidence < 45
        /\ rt_decision.kind = "commit" =>
              /\ rt_decision.primary = rt_intent.label
              /\ rt_decision.maybeSecondary # NoneStr =>
                    (rt_intent.secondConfidence # NoNumber /\ rt_intent.secondConfidence[1] >= 60)
        /\ rt_decision.kind = "clarify" =>
              (rt_decision.question # NoneStr /\ rt_decision.question # "")
        /\ rt_intent.confidence = 80 => rt_decision.kind = "commit"
        /\ rt_intent.confidence = 50 => rt_decision.kind = "clarify"
        /\ rt_intent.confidence = 10 => rt_decision.kind = "fallback"

C5_Witness ==
    /\ rt_decision # None
    /\ rt_intent.confidence = 75
    /\ rt_intent.secondConfidence = Number(60)
    /\ rt_decision.kind = "commit"
    /\ rt_decision.maybeSecondary = "Conversational"

-----------------------------------------------------------------------------
(* Claims about the pipeline *)

UserLockPositions ==
    {"UserConfig.update", "UserConfig.update>snapshot", "UserConfig.snapshot", "load_user_config>snapshot"}

Waiting(t) == pc[t] \notin {"idle", "done"}
LockOf(t) == IF pc[t] = "Telemetry.record" THEN storage_lock ELSE user_lock
Blank(text) == Trimmed[text] = ""

\* C1: no started handle_utterance blocks forever: a task that waits for
\* UserConfig._lock or for the telemetry lock waits for a lock that is free or
\* held by a task that is not itself waiting for it, so the wait can end
C1_NoTaskWaitsForever ==
    \A t \in Tasks :
        Waiting(t) =>
            \/ ~LockOf(t).locked
            \/ ~(Waiting(LockOf(t).holder) /\ LockOf(LockOf(t).holder) = LockOf(t))

\* C2: handle_utterance("remember to call mom tomorrow", {}) returns, with a
\* decision of kind commit or clarify, a non-empty masked userText, and a slot
\* that holds the date of the day after the call
C2_TomorrowIsResolved ==
    \A t \in Tasks :
        (pc[t] = "done" /\ frame[t].text = "remember to call mom tomorrow" /\ frame[t].options = <<>>) =>
            /\ outcome[t].kind = "returned"
            /\ outcome[t].value.decision.kind \in {"commit", "clarify"}
            /\ outcome[t].value.payload.userText # ""
            /\ \E key \in DOMAIN outcome[t].value.routedIntent.slots :
                  DatePart(outcome[t].value.routedIntent.slots[key])
                      = DatePart(_minutes_to_iso(AddDays(DateTimeOf(frame[t].started_at), 1)))

\* C3: a handle_utterance whose text is empty after trimming raises the input
\* error in the step that starts it, and that step leaves the memory store,
\* the trace log, the cache, the user config and both locks as they were
C3_BlankTextFailsFast ==
    [][\A t \in Tasks :
          (pc[t] = "idle" /\ pc'[t] # "idle" /\ Blank(frame'[t].text)) =>
              /\ pc'[t] = "done"
              /\ outcome'[t] = Raised("ValueError")
              /\ UNCHANGED <<memory_cache, trace_store, trace_seq, cache_store, in_memory_cache,
                             user_lock, storage_lock>>]_vars

\* a blank call has raised while the stores hold a row, a trace and a config
C3_Witness ==
    \E t \in Tasks :
        /\ pc[t] = "done"
        /\ frame[t].text = "   "
        /\ outcome[t] = Raised("ValueError")
        /\ memory_cache # <<>>
        /\ trace_store # <<>>
        /\ in_memory_cache # None

SameCall(t, u) ==
    /\ frame[t].text = frame[u].text
    /\ frame[t].options = frame[u].options
    /\ frame[t].understood = frame[u].understood

\* C4: a handle_utterance in which Telemetry.record raised returns, with
\* traceId None, and with the decision, routedIntent, payload and redaction
\* that the same call returns when the trace is recorded
C4_TelemetryIsBestEffort ==
    \A t \in record_raised :
        /\ pc[t] = "done"
        /\ outcome[t].kind = "returned"
        /\ outcome[t].value.traceId = NoneStr
        /\ outcome[t].value.decision = route_intent(frame[t].understood.with_slots)
        /\ outcome[t].value.routedIntent = frame[t].understood.with_slots
        /\ outcome[t].value.redaction = frame[t].understood.redaction
        /\ \A u \in Tasks \ record_raised :
              (pc[u] = "done" /\ outcome[u].kind = "returned" /\ SameCall(t, u)) =>
                  /\ outcome[u].value.traceId # NoneStr
                  /\ outcome[t].value.decision = outcome[u].value.decision
                  /\ outcome[t].value.routedIntent = outcome[u].value.routedIntent
                  /\ outcome[t].value.payload = outcome[u].value.payload
                  /\ outcome[t].value.redaction = outcome[u].value.redaction

\* one call recorded its trace, the same call then failed to record and returned
C4_Witness ==
    \E t \in record_raised, u \in Tasks \ record_raised :
        /\ pc[t] = "done"
        /\ pc[u] = "done"
        /\ outcome[u].kind = "returned"
        /\ outcome[u].value.traceId # NoneStr
        /\ SameCall(t, u)
        /\ outcome[t].value.redaction.replacementMap # <<>>

-----------------------------------------------------------------------------
(* Claims about the memory store *)

Rows(cache) == {cache[i] : i \in DOMAIN cache}
HasId(cache, id) == \E i \in DOMAIN cache : cache[i].id = id

\* C11: the cache never holds more than MAX_CACHED_ROWS rows; an upsert of a
\* new id into a full cache leaves exactly MAX_CACHED_ROWS rows, all of them
\* rows that were stored, and no dropped row is newer than a kept one
C11_CapacityKeepsNewest ==
    [][/\ Len(memory_cache') <= MAX_CACHED_ROWS
       /\ (/\ CallSeq' # CallSeq
           /\ call'.op = "Memory.upsert"
           /\ Len(memory_cache) = MAX_CACHED_ROWS
           /\ ~HasId(memory_cache, call'.row.id))
          => /\ Len(memory_cache') = MAX_CACHED_ROWS
             /\ Rows(memory_cache') \subseteq Rows(memory_cache) \cup {call'.row}
             /\ Cardinality(Rows(memory_cache')) = MAX_CACHED_ROWS
             /\ \A dropped \in (Rows(memory_cache) \cup {call'.row}) \ Rows(memory_cache') :
                    \A kept \in Rows(memory_cache') : dropped.ts <= kept.ts]_vars

\* an upsert into a full cache has kept its row and dropped an older one
C11_Witness ==
    /\ call # None
    /\ call.op = "Memory.upsert"
    /\ Len(memory_cache) = MAX_CACHED_ROWS
    /\ call.row \in Rows(memory_cache)
    /\ call.row.id \in {"new1", "new2"}
    /\ ~HasId(memory_cache, "row510")

\* C12: an upsert repeated at once with the identical payload leaves the
\* same rows, field for field, as the first one left
C12_UpsertIdempotent ==
    [][(/\ call # None
        /\ call.op = "Memory.upsert"
        /\ CallSeq' = CallSeq + 1
        /\ call'.op = "Memory.upsert"
        /\ call'.options = call.options)
       => Rows(memory_cache') = Rows(memory_cache)]_vars

\* the clamp of topK the claim states
ClampedTopK(top_k) == Min(20, Max(1, top_k))

\* the dot product, in hundredths, of the normalized embedding of query with
\* the embedding of row
Cosine(query, row) ==
    4 * (embed_text(Strip(query))[1] * row.embedding[1] + embed_text(Strip(query))[2] * row.embedding[2])

\* the remote retrieval of a search: no user, no results, or a failure
RemoteUnavailable(top_k) ==
    \/ user_id = NoneStr
    \/ rag_results = <<>>
    \/ \E i \in DOMAIN rag_results : i <= ClampedTopK(top_k) /\ rag_results[i].score = NoNumber

\* records is a local search result of the cache: rows of the requested
\* kinds with their cosine scores, the best ones, best first, at most limit
IsLocalResult(records, cache, query, kinds, limit) ==
    LET matching == {i \in DOMAIN cache : Lower(cache[i].kind) \in kinds}
    IN  /\ Len(records) = Min(limit, Cardinality(matching))
        /\ \A k \in DOMAIN records : \E i \in matching : records[k] = MemoryRecord(cache[i], Cosine(query, cache[i]))
        /\ \A k, l \in DOMAIN records : k < l => records[k].score >= records[l].score /\ records[k].id # records[l].id
        /\ \A i \in matching : (\A k \in DOMAIN records : records[k].id # cache[i].id)
              => \A k \in DOMAIN records : Cosine(query, cache[i]) <= records[k].score

C14_BriefNeedsUser ==
    [][(/\ CallSeq' # CallSeq
        /\ call'.op = "Memory.get_brief"
        /\ call'.uid \in {NoneStr, ""}
        /\ user_id \in {NoneStr, ""})
       => /\ call'.error # NoneStr
          /\ call'.rag = <<>>
          /\ call'.memoryRecords = <<>>
          /\ memory_cache' = memory_cache]_vars

\* get_brief failed for want of a user although there were remote results to
\* retrieve and rows in the store
C14_Witness ==
    /\ call # None
    /\ call.op = "Memory.get_brief"
    /\ call.uid = ""
    /\ call.query = " plan "
    /\ user_id = NoneStr
    /\ rag_results = SeededRag
    /\ call.error = "ValueError"
    /\ memory_cache # <<>>

-----------------------------------------------------------------------------
(* Claims about the redactor *)

\* C15: unmasking the masked text with its replacement map gives back the
\* text (no text of the model contains a placeholder)
C15_MaskRoundTrip ==
    (call # None /\ call.op = "Redactor.mask") => call.unmasked = call.text

-----------------------------------------------------------------------------
(* Claims about the slot filler *)

\* C16: "schedule a call next friday at 3pm" on a schedule intent gives a
\* start at 15:00 UTC on a Friday at most 7 days after now, and an end one
\* hour after the start (Weekday counts from Monday = 0, so Friday is 4)
C16_NextFridayAtThree ==
    (call # None /\ call.op = "fill") =>
        /\ call.error = NoneStr
        /\ {"start", "end"} \subseteq DOMAIN call.slots
        /\ \E ahead \in 0..7 :
              /\ Weekday(AddDays(call.now, ahead)) = 4
              /\ call.slots["start"] = _minutes_to_iso(DateTime(call.now.day + ahead, 15, 0, 0, 0))
              /\ call.slots["end"] = _minutes_to_iso(DateTime(call.now.day + ahead, 16, 0, 0, 0))

-----------------------------------------------------------------------------
(* Claims about the edge cache *)

\* C17: a get on a raw key that was set, with no later set on that raw key,
\* returns the value that was set when the clock is before the expiry
\* instant; when the clock is past it, the get returns None and leaves no
\* entry for the key in the store
C17_TtlGet ==
    (call # None /\ call.op = "EdgeCache.get" /\ call.written[call.key] # None) =>
        /\ call.now < call.written[call.key].expires_at => call.result = call.written[call.key].value
        /\ call.now > call.written[call.key].expires_at =>
              (call.result = NoneStr /\ _build_key(call.key) \notin DOMAIN cache_store)

-----------------------------------------------------------------------------
(* Claims about telemetry *)

TraceIds(traces) == {traces[i].id : i \in DOMAIN traces}

\* the place of a trace id in the order of the record calls
RecordedAt(id) == CHOOSE i \in DOMAIN Recorded : Recorded[i] = id

\* C18: the log never holds more than MAX_TRACES traces; a record call
\* returns an id that no trace had, adds exactly one trace, which has that
\* id, and when the log was full drops the trace recorded first among those
\* in the log, never the one it has just added
C18_RecordAtCap ==
    /\ Len(trace_store) <= MAX_TRACES
    /\ (call # None /\ call.op = "Telemetry.record") =>
          /\ call.error = NoneStr
          /\ call.trace_id \notin TraceIds(call.before)
          /\ call.trace_id \in TraceIds(trace_store)
          /\ Len(trace_store) = Min(Len(call.before) + 1, MAX_TRACES)
          /\ IF Len(call.before) < MAX_TRACES
             THEN TraceIds(trace_store) = TraceIds(call.before) \cup {call.trace_id}
             ELSE \E oldest \in TraceIds(call.before) :
                     /\ \A other \in TraceIds(call.before) : RecordedAt(oldest) <= RecordedAt(other)
                     /\ TraceIds(trace_store) = (TraceIds(call.before) \ {oldest}) \cup {call.trace_id}

\* C19: of two traces in the log, the one recorded later is nearer the head,
\* and no trace is in the log twice
C19_LogInRecordOrder ==
    \A i, j \in DOMAIN trace_store :
        i < j => /\ trace_store[i].id # trace_store[j].id
                 /\ RecordedAt(trace_store[i].id) > RecordedAt(trace_store[j].id)

\* C20: after update(id, patch) the log is the log before the call with the
\* trace of that id replaced by itself overlaid with the patch, every trace
\* at the place it had; without a trace of that id the log is as before
C20_UpdateFrame ==
    (call # None /\ call.op = "Telemetry.update") =>
        trace_store = [i \in DOMAIN call.before |->
                          IF call.before[i].id = call.trace_id THEN call.patch @@ call.before[i]
                          ELSE call.before[i]]

-----------------------------------------------------------------------------
(* Claims about telemetry under concurrent tasks *)

\* the orders in which the tasks of a set can run one after another
Orders(tasks) ==
    {order \in [1..Cardinality(tasks) -> tasks] : \A i, j \in DOMAIN order : i # j => order[i] # order[j]}

\* the log, the id counter and the outcomes after the calls of the tasks are
\* made one after another in the given order, each record at the time the
\* task read
RECURSIVE SerialRun(_, _)
SerialRun(order, n) ==
    IF n = 0 THEN [store |-> LogAtStart, seq |-> 1, outcome |-> [t \in {} |-> None]]
    ELSE With(SerialRun(order, n - 1), LAMBDA earlier :
            With(frame[order[n]], LAMBDA made :
                IF made.op = "record"
                THEN With(record(earlier.store, earlier.seq, made.params, made.clock), LAMBDA recorded :
                        [store |-> recorded.store, seq |-> earlier.seq + 1,
                         outcome |-> (order[n] :> Returned(recorded.trace_id)) @@ earlier.outcome])
                ELSE [store |-> update(earlier.store, made.trace_id, made.patch).store, seq |-> earlier.seq,
                      outcome |-> (order[n] :> Returned(NoneStr)) @@ earlier.outcome]))

DoneTasks == {t \in LogTasks : pc[t] = "done"}

\* C21: under every interleaving of record and update tasks, the log and the
\* values the finished calls returned are those of the same calls made one
\* after another in some order, so no trace and no patch is lost
C21_RecordAndUpdateAreSerial ==
    \E order \in Orders(DoneTasks) :
        /\ SerialRun(order, Len(order)).store = trace_store
        /\ \A t \in DoneTasks : SerialRun(order, Len(order)).outcome[t] = outcome[t]

\* three tasks have finished, a record and two updates of the trace that was
\* in the log at the start, and the log holds both traces and both patches
C21_Witness ==
    /\ DoneTasks = LogTasks
    /\ \E t \in LogTasks : frame[t].op = "record"
    /\ Len(trace_store) = 2
    /\ trace_store[2].planner = [action |-> "noop"]
    /\ trace_store[2].action = [kind |-> "done"]
    /\ storage_lock = FreeLock

-----------------------------------------------------------------------------
(* Claims about readers beside the shedding of state *)

\* a ring as record_user_message leaves it at the cap: neither emptied nor
\* over the cap, and in the order of the timestamps
WholeRing(ring) ==
    /\ Len(ring) \in MAX_SEMANTIC_TURNS - 1 .. MAX_SEMANTIC_TURNS
    /\ \A i, j \in DOMAIN ring : i < j => ring[i].ts <= ring[j].ts

\* a store as Memory.upsert leaves it at capacity: neither emptied nor over
\* the capacity, and no id twice
WholeStore(cache) ==
    /\ Len(cache) = MAX_CACHED_ROWS
    /\ Cardinality({cache[i].id : i \in DOMAIN cache}) = MAX_CACHED_ROWS

\* C22: whenever another task can run, and in what every reader has read, the
\* memory store and the ring are whole: as they were before a shedding or as
\* they are after it, never emptied or partly rebuilt
C22_ReadersSeeWholeState ==
    /\ WholeRing(recent_messages)
    /\ WholeStore(memory_cache)
    /\ (call # None /\ call.op = "Memory.search_top_n") =>
          (WholeStore(call.rows) /\ Len(call.records) = 5)
    /\ (call # None /\ call.op = "recent") => WholeRing(call.recent)

\* a search that was waiting for its embedding while an upsert evicted a row
\* has read the store after the eviction
C22_Witness ==
    /\ call # None
    /\ call.op = "Memory.search_top_n"
    /\ HasId(call.rows, "new2")
    /\ ~HasId(call.rows, "row510")
    /\ receiptsIn = MaxRingReceipts
    /\ recent_messages[1].isReceipt = FALSE

-----------------------------------------------------------------------------
(* Claims about the planner *)

\* the entry that EdgeCache.get found for the payload of the last plan_action
FoundEntry == call.before[StoreKey(call.payload)]

\* C23: a plan_action that finds for its payload's key an entry that is not a
\* well-formed planner response does not raise and does not return the entry:
\* it returns the freshly computed plan, as on a miss
C23_MalformedEntryIsRecomputed ==
    (/\ call # None /\ call.op = "plan_action"
     /\ Cached(call.before, StoreKey(call.payload), call.now)
     /\ ~_parse_tool_arguments(FoundEntry.value)) =>
        /\ call.error = NoneStr
        /\ ~call.cached
        /\ call.response = _heuristic_plan(call.payload)

\* C24: plan_action writes one entry, the plan under its TTL, when the plan's
\* TTL is not zero and writes none for schedule.create, goal.create and
\* journal.create; a plan_action on a payload whose plan was written and has
\* not expired is a hit that returns that plan, and one past the expiry
\* computes the plan afresh
C24_PlannerMemoization ==
    (call # None /\ call.op = "plan_action") =>
        /\ \A key \in DOMAIN cache_store :
              (key \notin DOMAIN call.before \/ cache_store[key] # call.before[key]) =>
                 /\ ~call.cached
                 /\ call.response.action \in {"reflect", "settings.update", "noop"}
                 /\ key = StoreKey(call.payload)
                 /\ cache_store[key] = CacheEntry(call.response, call.now + _planner_ttl(call.response.action))
        /\ (~call.cached /\ call.response.action \in {"reflect", "settings.update", "noop"}) =>
              (/\ StoreKey(call.payload) \in DOMAIN cache_store
               /\ cache_store[StoreKey(call.payload)].value = call.response)
        /\ (call.first # None /\ call.now <= call.first.expires_at) =>
              (call.cached /\ call.response = call.first.response)
        /\ (call.first # None /\ call.now > call.first.expires_at) =>
              (~call.cached /\ call.response = _heuristic_plan(call.payload))

-----------------------------------------------------------------------------
(* Claims about what leaves the pipeline *)

\* the utterances that the Redactor changes
HasPii(text) == Masked[text].masked # Trimmed[text]

\* C25: of an utterance with PII, the text handed to the remote retrieval,
\* the texts in the memory store, the texts in the telemetry log and the
\* values in the cache are never the raw text
C25_OnlyMaskedTextLeaves ==
    \A t \in Tasks :
        (frame[t] # None /\ frame[t].understood # None /\ HasPii(frame[t].text)) =>
            /\ frame[t].understood.remote_query # Trimmed[frame[t].text]
            /\ \A i \in DOMAIN memory_cache : memory_cache[i].text # Trimmed[frame[t].text]
            /\ \A i \in DOMAIN trace_store : trace_store[i].maskedUserText # Trimmed[frame[t].text]
            /\ \A key \in DOMAIN cache_store : cache_store[key].value # Trimmed[frame[t].text]

-----------------------------------------------------------------------------
(* Claims about the legacy helpers *)

\* an attempt that raised, or whose result the validator of the run rejected
\* or raised on
Failed(run, done) ==
    \/ done.raises
    \/ run.validator /\ (Validate(done.result).raises \/ ~Validate(done.result).valid)

\* the error text of a failed attempt
ErrorText(done) ==
    IF done.raises THEN done.error
    ELSE IF Validate(done.result).raises THEN Validate(done.result).error
    ELSE "Validation failed: " \o JoinComma(Validate(done.result).errors)

\* C26: call_fn is called at most max_retries + 1 times; the first call gets
\* no hint and every later one the error text of the attempt before it; the
\* run goes on only after failed attempts, returns the result of the first
\* attempt that did not fail, and raises RuntimeError when max_retries + 1
\* attempts failed
C26_RetryContract ==
    call # None =>
        /\ Len(call.attempts) <= Max(0, call.max_retries + 1)
        /\ Len(call.hints) = Len(call.attempts)
        /\ \A i \in DOMAIN call.hints :
              call.hints[i] = IF i = 1 THEN NoneStr ELSE ErrorText(call.attempts[i - 1])
        /\ \A i \in DOMAIN call.attempts : i < Len(call.attempts) => Failed(call, call.attempts[i])
        /\ call.status = "running" =>
              /\ Len(call.attempts) < call.max_retries + 1
              /\ \A i \in DOMAIN call.attempts : Failed(call, call.attempts[i])
        /\ call.status = "returned" =>
              /\ ~Failed(call, call.attempts[Len(call.attempts)])
              /\ call.value = call.attempts[Len(call.attempts)].result
        /\ call.status = "raised" =>
              /\ Len(call.attempts) = Max(0, call.max_retries + 1)
              /\ \A i \in DOMAIN call.attempts : Failed(call, call.attempts[i])
              /\ SubSeq(call.error, 1, 13) = "RuntimeError:"

\* a run with two retries that returned at its third attempt, after a result
\* that failed validation and an attempt that raised
C26_Witness ==
    /\ call # None
    /\ call.max_retries = 2
    /\ call.status = "returned"
    /\ call.hints = <<NoneStr, "Validation failed: intent is required, emotion is required", "timeout">>
    /\ call.value = "good"

\* the intents whose group of keywords the message matches
Matching(user_message) ==
    {intent \in {"small_talk", "scheduling", "tag", "reflection"} :
        SearchWords(Lower(user_message),
                    CASE intent = "small_talk" -> SMALL_TALK_WORDS
                      [] intent = "scheduling" -> SCHEDULING_WORDS
                      [] intent = "tag" -> TAG_WORDS
                      [] intent = "reflection" -> REFLECTION_WORDS)}

GateOrder == <<"small_talk", "scheduling", "tag", "reflection">>

\* C27: the gate's intent is the first of small_talk, scheduling, tag,
\* reflection whose keywords the message matches, unknown when none does; the
\* route is fast_path exactly for small_talk, scheduling and tag, which have
\* a confidence above 0.8, and gpt_thinking for reflection and unknown
C27_GateOrderAndRoute ==
    (call # None /\ call.op = "gate_request") =>
        /\ IF Matching(call.message) = {} THEN call.result.intent = "unknown"
           ELSE \E k \in DOMAIN GateOrder :
                   /\ call.result.intent = GateOrder[k]
                   /\ GateOrder[k] \in Matching(call.message)
                   /\ \A j \in 1..(k - 1) : GateOrder[j] \notin Matching(call.message)
        /\ call.result.route = "fast_path" <=> call.result.intent \in {"small_talk", "scheduling", "tag"}
        /\ call.result.route = "fast_path" => call.result.confidence > 80
        /\ call.result.intent \in {"reflection", "unknown"} => call.result.route = "gpt_thinking"

\* a message with a tag word before a scheduling word is scheduling, on the
\* fast path
C27_Witness ==
    /\ call # None
    /\ call.op = "gate_request"
    /\ call.message = "tag schedule"
    /\ call.result.intent = "scheduling"
    /\ call.result.route = "fast_path"

-----------------------------------------------------------------------------
(* Claims about the pruning of the ring *)

\* the number of messages of the ring that are not receipts and have the timestamp ts
NonReceiptsAt(ring, ts) == Cardinality({i \in DOMAIN ring : ~ring[i].isReceipt /\ ring[i].ts = ts})

\* the timestamps of the non-receipts that the last call dropped
DroppedStamps == {ts \in 0..now : NonReceiptsAt(call.offered, ts) > NonReceiptsAt(recent_messages, ts)}

\* C28: after a record_user_message call the ring has at most
\* MAX_SEMANTIC_TURNS messages, each with a timestamp not below that of the
\* message before it, and no non-receipt that the call dropped has a
\* timestamp above that of a non-receipt it kept
C28_PrunedOldestFirst ==
    /\ Len(recent_messages) <= MAX_SEMANTIC_TURNS
    /\ \A i, j \in DOMAIN recent_messages : i < j => recent_messages[i].ts <= recent_messages[j].ts
    /\ call # None =>
          \A ts \in DroppedStamps :
              \A i \in DOMAIN recent_messages : ~recent_messages[i].isReceipt => ts <= recent_messages[i].ts

\* a call on a full ring that dropped a non-receipt of time 0 and kept the
\* non-receipts of time 1, beside a receipt
C28_Witness ==
    /\ call # None
    /\ Len(call.offered) = MAX_SEMANTIC_TURNS + 1
    /\ 0 \in DroppedStamps
    /\ \E i \in DOMAIN recent_messages : ~recent_messages[i].isReceipt /\ recent_messages[i].ts = 1
    /\ \E i \in DOMAIN recent_messages : recent_messages[i].isReceipt
    /\ Len(recent_messages) = MAX_SEMANTIC_TURNS

-----------------------------------------------------------------------------
(* Claims about the remote retrieval *)

\* what the remote retrieval of the last search returned
RemoteFound == _rag_search(rag_results, Strip(call.query), Max(1, Min(call.topK, 20)))
RemoteAnswered == call # None /\ call.op = "Memory.search_top_n" /\ user_id # NoneStr /\ RemoteFound.error = NoneStr /\ Len(RemoteFound.results) > 0

\* C29: when the remote retrieval of a search returned results, the search
\* returns one record for each of them, in non-increasing order of the remote
\* score, and the local store holds each of them under the id "kind:id".
C29_RemoteRankedAndStored ==
    RemoteAnswered =>
        /\ Len(call.records) = Len(RemoteFound.results)
        /\ \A i, j \in DOMAIN call.records : i < j => call.records[i].score >= call.records[j].score
        /\ \A i \in DOMAIN RemoteFound.results :
              /\ \E j \in DOMAIN call.records : call.records[j].id = RemoteFound.results[i].kind \o ":" \o RemoteFound.results[i].id
              /\ \E k \in DOMAIN memory_cache : memory_cache[k].id = RemoteFound.results[i].kind \o ":" \o RemoteFound.results[i].id

\* C30: a brief asked with a limit of at most 9 returns at most limit remote
\* results and at most limit memory records, and never more than 9 of either.
C30_BriefBoundedByLimit ==
    (call # None /\ call.op = "Memory.get_brief" /\ call.limit <= REMOTE_BRIEF_LIMIT) =>
        /\ Len(call.rag) <= Max(0, call.limit) /\ Len(call.memoryRecords) <= Max(0, call.limit)
        /\ Len(call.rag) <= REMOTE_BRIEF_LIMIT /\ Len(call.memoryRecords) <= REMOTE_BRIEF_LIMIT

-----------------------------------------------------------------------------
(* Claims about the normalisation of native intents *)

Routed == call.result

\* C31: the routed intent built from any raw candidate list has a topK of
\* pairwise distinct labels, confidences in [0, 1] (clamping twice is clamping
\* once) in non-increasing order; its label and confidence are those of the
\* first candidate of topK; and its secondBest, when there is one, is another
\* intent than its label, with secondConfidence at most confidence.
C31_RoutedIntentIsNormalized ==
    (call # None /\ call.op = "build_routed_intent") =>
        /\ \A i, j \in DOMAIN Routed.topK : i # j => Routed.topK[i].label # Routed.topK[j].label
        /\ \A i \in DOMAIN Routed.topK : Routed.topK[i].confidence \in 0..100
        /\ \A c \in CandidateConfidences \cup NativeConfidences : _clamp(_clamp(c)) = _clamp(c) /\ _clamp(c) \in 0..100
        /\ \A i, j \in DOMAIN Routed.topK : i < j => Routed.topK[i].confidence >= Routed.topK[j].confidence
        /\ Len(Routed.topK) > 0
        /\ Routed.label = PascalLabel(Routed.topK[1].label) /\ Routed.confidence = Routed.topK[1].confidence
        /\ Routed.secondBest # NoneStr =>
              /\ Routed.secondBest # Routed.label
              /\ Routed.secondConfidence # NoNumber /\ Routed.secondConfidence[1] <= Routed.confidence

-----------------------------------------------------------------------------
(* Claims about the days and the slot keys of the slot filler *)

\* C32: the filler resolves "today" to now, "tomorrow" to the day after now
\* and "day after tomorrow" to two days after now
C32_RelativeDays ==
    (call # None /\ call.op = "fill") =>
        /\ call.text = "lunch today" => call.relative = call.now
        /\ call.text = "lunch tomorrow" => call.relative = AddDays(call.now, 1)
        /\ call.text = "lunch day after tomorrow" => call.relative = AddDays(call.now, 2)

SlotGroups(slots) ==
    {group \in {"schedule", "goal", "journal"} :
        \/ group = "schedule" /\ (HasKey(slots, "start") \/ HasKey(slots, "end"))
        \/ group = "goal" /\ HasKey(slots, "due")
        \/ group = "journal" /\ HasKey(slots, "ts")}

\* end is the ISO instant one hour after the ISO instant start
HourAfter(start, end) ==
    /\ SubSeq(start, 14, Len(start)) = SubSeq(end, 14, Len(end))
    /\ ToInt(SubSeq(end, 12, 13)) = (ToInt(SubSeq(start, 12, 13)) + 1) % 24
    /\ (SubSeq(start, 1, 11) = SubSeq(end, 1, 11)) <=> (ToInt(SubSeq(start, 12, 13)) < 23)

\* C33: the slot keys follow the label: a schedule intent whose text names a
\* day gets start, and end one hour after start when the text has no clock
\* time, whatever the form of the date and whatever other numbers the text
\* holds; a goal intent gets of the dated slots only a date-only due, a
\* journal intent only a full timestamp ts, and no intent gets dated slots of
\* two kinds
C33_SlotKeysFollowLabel ==
    (call # None /\ call.op = "fill") =>
        /\ (call.label = "Schedule Create" /\ call.text # "call mom") =>
              /\ call.error = NoneStr
              /\ HasKey(call.slots, "start")
              /\ call.text \in UntimedTexts =>
                    (HasKey(call.slots, "end") /\ HourAfter(call.slots["start"], call.slots["end"]))
        /\ call.label = "Goal Create" =>
              /\ SlotGroups(call.slots) \subseteq {"goal"}
              /\ HasKey(call.slots, "due") => (Len(call.slots["due"]) = 10 /\ ~Contains(call.slots["due"], "T"))
        /\ call.label = "Journal Entry" =>
              /\ SlotGroups(call.slots) \subseteq {"journal"}
              /\ HasKey(call.slots, "ts") => (Len(call.slots["ts"]) = 20 /\ Contains(call.slots["ts"], "T"))
        /\ call.label = "Entry Create" => SlotGroups(call.slots) = {}
        /\ Cardinality(SlotGroups(call.slots)) <= 1

-----------------------------------------------------------------------------
(* Claims about the explanation the classifier returns *)

\* lines 210-226 of handle_utterance on the classification
RoutedFrom(classification) == build_routed_intent(NativeIntent(classification), <<>>)

\* C34: every classification has at least one reason and at least one
\* candidate, the candidates are in non-increasing order of confidence, the
\* first candidate carries the returned label and confidence, and the intent
\* that handle_utterance routes has the classifier's label and confidence
C34_ExplainedClassification ==
    cl_result # None =>
        /\ Len(cl_result.reasons) > 0
        /\ \A i \in DOMAIN cl_result.reasons : cl_result.reasons[i] # ""
        /\ Len(cl_result.topCandidates) > 0
        /\ \A i, j \in DOMAIN cl_result.topCandidates :
              i < j => cl_result.topCandidates[i].confidence >= cl_result.topCandidates[j].confidence
        /\ cl_result.topCandidates[1] = _base_candidate(cl_result.label, cl_result.confidence)
        /\ RoutedFrom(cl_result).rawLabel = NativeLabel[cl_result.label]
        /\ RoutedFrom(cl_result).label = to_pascal_case(NativeLabel[cl_result.label])
        /\ RoutedFrom(cl_result).confidence = cl_result.confidence

\* the last rule before the default: an append at 0.8 found through the ring,
\* explained by two reasons and three candidates
C34_Witness ==
    /\ cl_result # None
    /\ cl_result.label = "entry_append" /\ cl_result.confidence = 80
    /\ Len(cl_result.reasons) = 2 /\ Len(cl_result.topCandidates) = 3
    /\ RoutedFrom(cl_result).label = "EntryAppend"

-----------------------------------------------------------------------------
(* Claims about where the original PII stays *)

\* the originals that the redaction of task t's text took out
ReplacedValues(t) ==
    {frame[t].understood.redaction.replacementMap[i].value : i \in DOMAIN frame[t].understood.redaction.replacementMap}

\* the trace that task t's call recorded, as the log holds it
TracesOf(t) == {i \in DOMAIN trace_store : trace_store[i].id = outcome[t].value.traceId}

HasTrace(t) == outcome[t] # None /\ outcome[t].kind = "returned" /\ outcome[t].value.traceId # NoneStr

\* C35: the trace a call records holds the masked text, which is the
\* redaction's masked text and the payload's userText, and for each
\* placeholder the length of the original only; no original that the
\* redaction took out is in a text of the telemetry log or of the memory
\* store, or a value of the cache
C35_OriginalsStayInTheMap ==
    \A t \in Tasks :
        (frame[t] # None /\ frame[t].understood # None) =>
            /\ HasTrace(t) =>
                  /\ TracesOf(t) # {}
                  /\ \A i \in TracesOf(t) :
                        /\ trace_store[i].maskedUserText = frame[t].understood.redaction.masked
                        /\ trace_store[i].maskedUserText = outcome[t].value.payload.userText
                        /\ trace_store[i].maskedUserText = outcome[t].value.redaction.masked
                        /\ trace_store[i].redactionSummary =
                              [j \in DOMAIN frame[t].understood.redaction.replacementMap |->
                                  [key |-> frame[t].understood.redaction.replacementMap[j].key,
                                   length |-> Len(frame[t].understood.redaction.replacementMap[j].value)]]
            /\ \A value \in ReplacedValues(t) :
                  /\ \A i \in DOMAIN trace_store :
                        /\ ~Contains(trace_store[i].maskedUserText, value)
                        /\ ~Contains(trace_store[i].intentLabel, value)
                        /\ \A j \in DOMAIN trace_store[i].redactionSummary : trace_store[i].redactionSummary[j].key # value
                  /\ \A i \in DOMAIN memory_cache : ~Contains(memory_cache[i].text, value) /\ ~Contains(memory_cache[i].id, value)
                  /\ \A key \in DOMAIN cache_store : cache_store[key].value # value /\ ~Contains(key, value)

\* a call on a text with an e-mail address has returned and the log holds its
\* trace: the text with the placeholder, and the length of the address
C35_Witness ==
    \E t \in Tasks :
        /\ frame[t] # None /\ frame[t].understood # None
        /\ ReplacedValues(t) = {"bob@example.com"}
        /\ HasTrace(t)
        /\ \E i \in TracesOf(t) :
              /\ trace_store[i].maskedUserText = "email me at [EMAIL_0]"
              /\ trace_store[i].redactionSummary = <<[key |-> "[EMAIL_0]", length |-> 15]>>

-----------------------------------------------------------------------------
(* Claims about the decisions that the pipeline can return *)

\* C36: every call of handle_utterance that returns was classified with a
\* confidence of at least 0.78, which is above the commit threshold, and
\* returns a decision of kind commit on the classifier's intent
C36_PipelineAlwaysCommits ==
    \A t \in Tasks :
        (outcome[t] # None /\ outcome[t].kind = "returned") =>
            /\ frame[t].understood.classification.confidence >= 78
            /\ frame[t].understood.classification.confidence >= ROUTE_AT_THRESHOLD
            /\ outcome[t].value.routedIntent.confidence = frame[t].understood.classification.confidence
            /\ outcome[t].value.decision.kind = "commit"
            /\ outcome[t].value.decision.primary = outcome[t].value.routedIntent.label

\* a call classified by the rule of the lowest confidence, a follow-up in an
\* active window at 0.78, has returned a commit
C36_Witness ==
    \E t \in Tasks :
        /\ outcome[t] # None /\ outcome[t].kind = "returned"
        /\ frame[t].understood.classification.confidence = 78
        /\ outcome[t].value.decision = RouteDecision("commit", "EntryDiscuss", "EntryCreate", NoneStr)

-----------------------------------------------------------------------------
(* Claims about the two append rules of the classifier *)

\* the classified text has additive language and the records hold a duplicate
DuplicateAndAdditive == _pick_duplicate(cl_records) # None /\ Signals[cl_text].has_additive

\* the text reaches the rules that read the records: it is neither blank, nor a
\* slash command, nor a search query
ReachesAppendRules == Signals[cl_text].trimmed # "" /\ ~Signals[cl_text].is_command /\ ~Signals[cl_text].is_search

\* C37 as stated: whenever the records hold a duplicate and the text has
\* additive language the classification is entry_append at 0.91, and no
\* classification is entry_append at 0.88
C37_AnyAdditiveDuplicateAppends ==
    cl_result # None =>
        /\ DuplicateAndAdditive => (cl_result.label = "entry_append" /\ cl_result.confidence = 91)
        /\ ~(cl_result.label = "entry_append" /\ cl_result.confidence = 88)

\* C37: whenever the records hold a duplicate and a text that is neither a
\* command nor a search query has additive language, the classification is
\* entry_append at 0.91, and no classification at all is entry_append at 0.88
C37_SecondAppendRuleShadowed ==
    cl_result # None =>
        /\ (DuplicateAndAdditive /\ ReachesAppendRules) => (cl_result.label = "entry_append" /\ cl_result.confidence = 91)
        /\ ~(cl_result.label = "entry_append" /\ cl_result.confidence = 88)

\* additive language over a duplicate, inside an active window with a pronoun
\* anchor or not, was classified by the first append rule
C37_Witness ==
    /\ cl_result # None
    /\ DuplicateAndAdditive /\ ReachesAppendRules
    /\ cl_result.label = "entry_append" /\ cl_result.confidence = 91
    /\ cl_result.reasons = <<"High-similarity memory match with additive language">>

-----------------------------------------------------------------------------
(* Claims about the addressing of the edge cache *)

\* the raw keys that were set and have the hash of the raw key of the call
Sharing == {raw \in CacheKeys : call.setAt[raw] > 0 /\ _hash_string(raw) = _hash_string(call.key)}

\* the raw key of the latest set among the sharing ones
LatestSharing == CHOOSE raw \in Sharing : \A other \in Sharing : call.setAt[other] <= call.setAt[raw]

\* C38: the store is keyed by the 32-bit rolling hash of the raw key, and a
\* get returns the value of the latest set among the raw keys that have the
\* hash of its raw key when that set has not expired, whichever of these raw
\* keys it was made on, and None when it has expired or there was no such set
C38_AddressedByHash ==
    /\ _hash_string("Aa") = "2112" /\ _hash_string("BB") = "2112"
    /\ (call # None /\ call.op \in {"EdgeCache.get", "EdgeCache.set"}) =>
          DOMAIN cache_store \subseteq {STORAGE_PREFIX \o _hash_string(raw) : raw \in {raw \in CacheKeys : call.setAt[raw] > 0}}
    /\ (call # None /\ call.op = "EdgeCache.get") =>
          IF Sharing = {} THEN call.result = NoneStr
          ELSE IF call.written[LatestSharing].expires_at < call.now THEN call.result = NoneStr
          ELSE call.result = call.written[LatestSharing].value

\* both colliding raw keys were set to different values, "BB" first, and a get
\* through "BB" has returned the value set on "Aa"
C38_Witness ==
    /\ call # None /\ call.op = "EdgeCache.get" /\ call.key = "BB"
    /\ 0 < call.setAt["BB"] /\ call.setAt["BB"] < call.setAt["Aa"]
    /\ call.written["BB"].value # call.written["Aa"].value
    /\ call.result = call.written["Aa"].value

-----------------------------------------------------------------------------
(* Claims about the tool handler *)

\* payload has a string under key
HasString(payload, key) == key \in DOMAIN payload /\ IsStr(payload[key])

\* the start the handler reads: start when it is a string, else start_at
StartOf(payload) == IF HasString(payload, "start") THEN payload["start"].str ELSE payload["start_at"].str
EndOf(payload) == IF HasString(payload, "end") THEN payload["end"].str ELSE payload["end_at"].str

\* the payload has a string start (or start_at) and a string end (or end_at),
\* both datetimes, the start strictly before the end
StartBeforeEnd(payload) ==
    /\ HasString(payload, "start") \/ HasString(payload, "start_at")
    /\ HasString(payload, "end") \/ HasString(payload, "end_at")
    /\ fromisoformat(ReplaceZ(StartOf(payload))).ok /\ fromisoformat(ReplaceZ(EndOf(payload))).ok
    /\ ~NotBefore(fromisoformat(ReplaceZ(StartOf(payload))), fromisoformat(ReplaceZ(EndOf(payload))))

MissingStartEnd == "ValueError: Planner schedule payload missing start/end"

\* C39: a schedule.create plan is accepted (a result is returned, with the
\* row persisted under the times read) only when its payload has top-level
\* string start (or start_at) and end (or end_at) with the start strictly
\* before the end; otherwise the call raises, returning and persisting
\* nothing; and on every schedule.create response of plan_action it raises
\* the missing start/end error
C39_ScheduleNeedsTopLevelTimes ==
    (call # None /\ call.op = "handle_tool_call" /\ call.plan # None /\ call.plan.action = "schedule.create") =>
        /\ call.error = NoneStr =>
              /\ StartBeforeEnd(call.plan.payload)
              /\ call.persisted # None /\ call.result # None
              /\ call.persisted.start_at = StartOf(call.plan.payload)
              /\ call.persisted.end_at = EndOf(call.plan.payload)
        /\ ~StartBeforeEnd(call.plan.payload) => call.error # NoneStr
        /\ call.error # NoneStr => (call.persisted = None /\ call.result = None)
        /\ call.planned => call.error = MissingStartEnd

\* a schedule.create response that plan_action returned was handed to
\* handle_tool_call, which raised the missing start/end error
C39_Witness ==
    /\ call # None /\ call.op = "handle_tool_call" /\ call.planned
    /\ call.plan.action = "schedule.create"
    /\ call.plan.payload = [slots |-> <<>>, context |-> <<>>]
    /\ call.error = MissingStartEnd

\* a hand-written plan with its times under start_at and end_at was accepted
C39_WitnessAccepted ==
    /\ call # None /\ call.op = "handle_tool_call" /\ ~call.planned /\ call.plan # None
    /\ call.plan.action = "schedule.create" /\ "start" \notin DOMAIN call.plan.payload
    /\ call.error = NoneStr /\ call.persisted.start_at = ThreePm

-----------------------------------------------------------------------------
(* Claims about the context window across a pipeline run *)

TheFocus == WindowState("e1", "journal", 0, RatOne)

\* C40: every step of a handle_utterance call, from the call to its return or
\* raise, leaves the focus (entryId, entryType, createdAt, decayScore) and the
\* ring of recent messages as they were
C40_WindowOnlyRead ==
    [][(pc' # pc \/ outcome' # outcome \/ frame' # frame) => (state' = state /\ recent_messages' = recent_messages)]_vars

\* with a focus and a message in the window, one call has returned and one has
\* raised after classifying its text; the focus and the ring are those of the start
C40_Witness ==
    /\ \E t \in Tasks : outcome[t] # None /\ outcome[t].kind = "returned"
    /\ \E t \in Tasks : outcome[t] # None /\ outcome[t].kind = "raised" /\ Trimmed[frame[t].text] # ""
    /\ state = TheFocus
    /\ recent_messages = <<RecentMessage("ok", 0, _compute_message_score("ok"), FALSE)>>

\* without a focus, calls have returned and none was created
C40_WitnessNoFocus ==
    /\ \A t \in Tasks : outcome[t] # None /\ outcome[t].kind = "returned"
    /\ state = None /\ recent_messages = <<>>

====
